---- MODULE Spec2Model ----
(***************************************************************************)
(* State-machine model of the TBM SIRI-Lite client (src/lambda/api.py):    *)
(* text normalisation, fuzzy scoring, the two-level catalogue cache and    *)
(* the search operations built on it.                                      *)
(*                                                                         *)
(* Text is modelled character by character: a Python str is a sequence of  *)
(* one-character atoms.  An accented letter is written as the atom of its  *)
(* base letter followed by "/" ("e/" is e-acute, "E/" is E-acute) and the  *)
(* combining acute accent itself is the atom "/".                          *)
(*                                                                         *)
(* A float score is modelled exactly as the integer score * ScoreScale.    *)
(***************************************************************************)
EXTENDS Integers, Sequences, FiniteSets, TLC

VARIABLES
    lines_cache,   \* TBMClient._lines_cache : None or the ordered mapping
    stops_cache,   \* TBMClient._stops_cache : cache_key -> list of stops
    source,        \* what the data source currently serves
    call,          \* the last completed client call, as its caller saw it
    populated,     \* history: how each stop-cache key was populated
    fetched,       \* history: which fetches have succeeded so far
    txt,           \* the last evaluation of a pure text function
    scores,        \* fuzzy_match on the model's queries and labels
    norms,         \* normalize_text on the model's labels
    skill,         \* the skill: session, stored attributes, last request
    race           \* two get_stops_for_line invocations, step by step

vars == <<lines_cache, stops_cache, source, call, populated, fetched, txt,
          scores, norms, skill, race>>

-----------------------------------------------------------------------------
(* Characters *)

UpperChars == <<"A","B","C","D","E","F","G","H","I","J","K","L","M",
                "N","O","P","Q","R","S","T","U","V","W","X","Y","Z">>
LowerChars == <<"a","b","c","d","e","f","g","h","i","j","k","l","m",
                "n","o","p","q","r","s","t","u","v","w","x","y","z">>
DigitChars == <<"0","1","2","3","4","5","6","7","8","9">>

\* Every character of the model, in code-point order (Python compares str
\* values code point by code point).
CodePointOrder ==
    <<" ", ",", "-", ".">> \o DigitChars \o <<":">> \o UpperChars \o <<"_">>
        \o LowerChars \o <<"E/", "e/", "/">>

Ord(c) == CHOOSE i \in 1..Len(CodePointOrder) : CodePointOrder[i] = c

InSeq(c, s) == \E i \in 1..Len(s) : s[i] = c

\* str.lower(), one character
Lower(c) ==
    IF InSeq(c, UpperChars)
    THEN LowerChars[CHOOSE i \in 1..Len(UpperChars) : UpperChars[i] = c]
    ELSE IF c = "E/" THEN "e/" ELSE c

\* unicodedata.normalize("NFKD", c), one character
Nfkd(c) ==
    IF c = "e/" THEN <<"e", "/">>
    ELSE IF c = "E/" THEN <<"E", "/">>
    ELSE <<c>>

\* unicodedata.combining(c) != 0
Combining(c) == c = "/"

\* str.isspace(), one character
IsSpace(c) == c = " "

\* \w of a Python 3 str pattern: alphanumerics and the underscore
IsWordChar(c) ==
    \/ InSeq(c, LowerChars) \/ InSeq(c, UpperChars) \/ InSeq(c, DigitChars)
    \/ c = "_" \/ c = "e/" \/ c = "E/"

-----------------------------------------------------------------------------
(* Strings *)

\* unicodedata.normalize("NFKD", s)
RECURSIVE NfkdStr(_)
NfkdStr(s) == IF s = <<>> THEN <<>> ELSE Nfkd(Head(s)) \o NfkdStr(Tail(s))

RECURSIVE LStrip(_)
LStrip(s) == IF s # <<>> /\ IsSpace(Head(s)) THEN LStrip(Tail(s)) ELSE s

RECURSIVE RStrip(_)
RStrip(s) ==
    IF s # <<>> /\ IsSpace(s[Len(s)]) THEN RStrip(SubSeq(s, 1, Len(s) - 1))
    ELSE s

\* str.strip()
Strip(s) == RStrip(LStrip(s))

\* a in b, for Python str
IsSubstring(a, b) ==
    \E i \in 0..(Len(b) - Len(a)) : SubSeq(b, i + 1, i + Len(a)) = a

\* a < b, for Python str
RECURSIVE StrLess(_, _)
StrLess(a, b) ==
    IF b = <<>> THEN FALSE
    ELSE IF a = <<>> THEN TRUE
    ELSE IF Head(a) = Head(b) THEN StrLess(Tail(a), Tail(b))
    ELSE Ord(Head(a)) < Ord(Head(b))

-----------------------------------------------------------------------------
(* normalize_text *)

\* FRENCH_NUMBERS, in the dict's insertion order (the order of the loop)
FRENCH_NUMBERS == <<
    <<<<"z","e","r","o">>, <<"0">>>>,
    <<<<"u","n">>, <<"1">>>>,
    <<<<"u","n","e">>, <<"1">>>>,
    <<<<"d","e","u","x">>, <<"2">>>>,
    <<<<"t","r","o","i","s">>, <<"3">>>>,
    <<<<"q","u","a","t","r","e">>, <<"4">>>>,
    <<<<"c","i","n","q">>, <<"5">>>>,
    <<<<"s","i","x">>, <<"6">>>>,
    <<<<"s","e","p","t">>, <<"7">>>>,
    <<<<"h","u","i","t">>, <<"8">>>>,
    <<<<"n","e","u","f">>, <<"9">>>>,
    <<<<"d","i","x">>, <<"1","0">>>>,
    <<<<"o","n","z","e">>, <<"1","1">>>>,
    <<<<"d","o","u","z","e">>, <<"1","2">>>>,
    <<<<"t","r","e","i","z","e">>, <<"1","3">>>>,
    <<<<"q","u","a","t","o","r","z","e">>, <<"1","4">>>>,
    <<<<"q","u","i","n","z","e">>, <<"1","5">>>>,
    <<<<"s","e","i","z","e">>, <<"1","6">>>>,
    <<<<"d","i","x","-","s","e","p","t">>, <<"1","7">>>>,
    <<<<"d","i","x","-","h","u","i","t">>, <<"1","8">>>>,
    <<<<"d","i","x","-","n","e","u","f">>, <<"1","9">>>>,
    <<<<"v","i","n","g","t">>, <<"2","0">>>>,
    <<<<"t","r","e","n","t","e">>, <<"3","0">>>>,
    <<<<"q","u","a","r","a","n","t","e">>, <<"4","0">>>>,
    <<<<"c","i","n","q","u","a","n","t","e">>, <<"5","0">>>>,
    <<<<"s","o","i","x","a","n","t","e">>, <<"6","0">>>> >>

\* whether position p (1..Len(s)) of s holds a word character
WordAt(s, p) == p >= 1 /\ p <= Len(s) /\ IsWordChar(s[p])

\* \b between positions p and p + 1 of s
WordBoundary(s, p) == WordAt(s, p) # WordAt(s, p + 1)

\* whether rf'\b{word}\b' matches s at position i
MatchesAt(word, s, i) ==
    /\ i + Len(word) - 1 <= Len(s)
    /\ SubSeq(s, i, i + Len(word) - 1) = word
    /\ WordBoundary(s, i - 1)
    /\ WordBoundary(s, i + Len(word) - 1)

\* re.sub(rf'\b{word}\b', digit, s), scanning s from position i
RECURSIVE ReSubFrom(_, _, _, _)
ReSubFrom(word, digit, s, i) ==
    IF i > Len(s) THEN <<>>
    ELSE IF MatchesAt(word, s, i)
         THEN digit \o ReSubFrom(word, digit, s, i + Len(word))
         ELSE <<s[i]>> \o ReSubFrom(word, digit, s, i + 1)

\* a variant that replaces the first match only: re.sub(..., count=1)
RECURSIVE ReSubFirstFrom(_, _, _, _)
ReSubFirstFrom(word, digit, s, i) ==
    IF i > Len(s) THEN <<>>
    ELSE IF MatchesAt(word, s, i)
         THEN digit \o SubSeq(s, i + Len(word), Len(s))
         ELSE <<s[i]>> \o ReSubFirstFrom(word, digit, s, i + 1)

ReSubFirst(word, digit, s) == ReSubFirstFrom(word, digit, s, 1)

ReSub(word, digit, s) == ReSubFrom(word, digit, s, 1)

\* the loop over FRENCH_NUMBERS.items(), from entry k on
RECURSIVE SubstituteNumbers(_, _)
SubstituteNumbers(s, k) ==
    IF k > Len(FRENCH_NUMBERS) THEN s
    ELSE SubstituteNumbers(
             ReSub(FRENCH_NUMBERS[k][1], FRENCH_NUMBERS[k][2], s), k + 1)

StripAccents(s) == SelectSeq(NfkdStr(s), LAMBDA c : ~Combining(c))

LowerStr(s) == [i \in 1..Len(s) |-> Lower(s[i])]

normalize_text(text) ==
    IF text = <<>> THEN <<>>
    ELSE SubstituteNumbers(Strip(LowerStr(StripAccents(text))), 1)

-----------------------------------------------------------------------------
(* extract_keywords *)

\* the character class [\s\-\_\,\.] of the split pattern
IsSeparator(c) == IsSpace(c) \/ c = "-" \/ c = "_" \/ c = "," \/ c = "."

\* re.split(r'[\s\-\_\,\.]+', s): the pieces between runs of separators,
\* cur being the piece under construction
RECURSIVE SplitFrom(_, _, _)
SplitFrom(s, i, cur) ==
    IF i > Len(s) THEN <<cur>>
    ELSE IF IsSeparator(s[i])
         THEN IF i > 1 /\ IsSeparator(s[i - 1])
              THEN SplitFrom(s, i + 1, cur)
              ELSE <<cur>> \o SplitFrom(s, i + 1, <<>>)
         ELSE SplitFrom(s, i + 1, Append(cur, s[i]))

ReSplit(s) == SplitFrom(s, 1, <<>>)

stopwords == {
    <<"l","e">>, <<"l","a">>, <<"l","e","s">>, <<"d","e">>, <<"d","u">>,
    <<"d","e","s">>, <<"a">>, <<"a","u">>, <<"a","u","x">>, <<"e","t">>,
    <<"e","n">> }

MinKeywordLen == 2

extract_keywords(text) ==
    IF text = <<>> THEN <<>>
    ELSE SelectSeq(ReSplit(normalize_text(text)),
                   LAMBDA w : Len(w) >= MinKeywordLen /\ w \notin stopwords)

-----------------------------------------------------------------------------
(* fuzzy_match *)

\* A score x of the code is the integer x * ScoreScale.  Every score the
\* code computes for at most 7 query keywords is such an integer.
ScoreScale == 420 * 10

ScoreExact == ScoreScale                    \* 1.0
ScoreQueryInTarget == (9 * ScoreScale) \div 10   \* 0.9
ScoreTargetInQuery == (8 * ScoreScale) \div 10   \* 0.8
\* a variant whose keyword tier is not scaled down: return score
ScoreKeywordFull == ScoreScale
ScoreKeywordMax == (7 * ScoreScale) \div 10      \* 0.7

\* a variant that only looks for the query word inside the target word
RECURSIVE CountMatchesOneWay(_, _)
CountMatchesOneWay(query_words, target_words) ==
    IF query_words = <<>> THEN 0
    ELSE (IF \E j \in 1..Len(target_words) :
                IsSubstring(Head(query_words), target_words[j])
          THEN 1 ELSE 0)
         + CountMatchesOneWay(Tail(query_words), target_words)

\* sum(1 for qw in query_words if any(qw in tw or tw in qw for tw in ...))
RECURSIVE CountMatches(_, _)
CountMatches(query_words, target_words) ==
    IF query_words = <<>> THEN 0
    ELSE (IF \E j \in 1..Len(target_words) :
                \/ IsSubstring(Head(query_words), target_words[j])
                \/ IsSubstring(target_words[j], Head(query_words))
          THEN 1 ELSE 0)
         + CountMatches(Tail(query_words), target_words)

KeywordScore(query_words, target_words) ==
    IF query_words = <<>> \/ target_words = <<>> THEN 0
    ELSE (CountMatches(query_words, target_words) * ScoreKeywordMax)
             \div Len(query_words)

\* fuzzy_match, once query_norm and target_norm are computed
MatchTiers(query_norm, target_norm, query, target) ==
    IF query_norm = target_norm THEN ScoreExact
    ELSE IF IsSubstring(query_norm, target_norm) THEN ScoreQueryInTarget
    ELSE IF IsSubstring(target_norm, query_norm) THEN ScoreTargetInQuery
    ELSE KeywordScore(extract_keywords(query), extract_keywords(target))

fuzzy_match(query, target) ==
    MatchTiers(normalize_text(query), normalize_text(target), query, target)


-----------------------------------------------------------------------------
(* Provider values: to_int, get_value *)

\* A JSON value of a provider response.  t is its Python type; a dict
\* carries its "value" and "Value" entries, each <<>> when absent and <<s>>
\* when the str s; a list carries its items; a str carries s.
JStr(s) == [t |-> "str", s |-> s, value |-> <<>>, Value |-> <<>>, items |-> <<>>]
JDict(s) == [t |-> "dict", s |-> <<>>, value |-> <<s>>, Value |-> <<>>, items |-> <<>>]
JDictUpper(s) == [t |-> "dict", s |-> <<>>, value |-> <<>>, Value |-> <<s>>, items |-> <<>>]
JList(xs) == [t |-> "list", s |-> <<>>, value |-> <<>>, Value |-> <<>>, items |-> xs]
JNone == [t |-> "none", s |-> <<>>, value |-> <<>>, Value |-> <<>>, items |-> <<>>]
\* a key the enclosing object does not have: .get(key, default) is default
JAbsent == [t |-> "absent", s |-> <<>>, value |-> <<>>, Value |-> <<>>, items |-> <<>>]

\* x.get("value") or x.get("Value") or ""
DictValue(x) ==
    IF x.value # <<>> /\ x.value[1] # <<>> THEN x.value[1]
    ELSE IF x.Value # <<>> /\ x.Value[1] # <<>> THEN x.Value[1]
    ELSE <<>>

get_value(v) ==
    IF v.t = "list"
    THEN IF v.items = <<>> THEN <<>>
         ELSE LET x == v.items[1]
              IN  IF x.t = "dict" THEN DictValue(x)
                  ELSE IF x.t = "str" THEN x.s
                  ELSE <<>>
    ELSE IF v.t = "dict" THEN DictValue(v)
    ELSE IF v.t = "str" THEN v.s
    ELSE <<>>

DigitValue(c) == (CHOOSE i \in 1..Len(DigitChars) : DigitChars[i] = c) - 1

RECURSIVE DigitsValue(_, _)
DigitsValue(s, acc) ==
    IF s = <<>> THEN acc
    ELSE DigitsValue(Tail(s), 10 * acc + DigitValue(Head(s)))

AllDigits(s) == s # <<>> /\ \A i \in 1..Len(s) : InSeq(s[i], DigitChars)

ToIntDefault == -1

\* to_int(value) for a str value: int(value.strip()), or the default when
\* int() raises ValueError
to_int(value) ==
    LET w == Strip(value)
    IN  IF AllDigits(w) THEN DigitsValue(w, 0)
        ELSE IF w # <<>> /\ Head(w) = "-" /\ AllDigits(Tail(w))
             THEN 0 - DigitsValue(Tail(w), 0)
        ELSE ToIntDefault

RECURSIVE NatStr(_)
NatStr(n) ==
    IF n < 10 THEN <<DigitChars[n + 1]>>
    ELSE NatStr(n \div 10) \o <<DigitChars[(n % 10) + 1]>>

\* str(n) for an int n
IntStr(n) == IF n < 0 THEN <<"-">> \o NatStr(0 - n) ELSE NatStr(n)

\* f"{line_ref}-{direction_ref}"
CacheKey(line_ref, direction_ref) == line_ref \o <<"-">> \o IntStr(direction_ref)

-----------------------------------------------------------------------------
(* The data source: what the three SIRI-Lite endpoints serve *)

S_TramC == <<"T","r","a","m"," ","C">>
S_C == <<"C">>
S_LesPyrenees == <<"L","e","s"," ","P","y","r","e/","n","e/","e","s">>
S_Centre == <<"C","e","n","t","r","e">>
S_Bus1 == <<"B","u","s"," ","1">>
S_Bus2 == <<"B","u","s"," ","2">>
S_1 == <<"1">>
S_2 == <<"2">>
S_0 == <<"0">>
S_X == <<"X">>
S_Gare == <<"G","a","r","e">>
S_QuaranteJournaux ==
    <<"Q","u","a","r","a","n","t","e"," ","J","o","u","r","n","a","u","x">>
S_40JournauxSud ==
    <<"4","0"," ","J","o","u","r","n","a","u","x"," ","S","u","d">>
S_Journaux == <<"J","o","u","r","n","a","u","x">>
S_SP1 == <<"s","1">>
S_SP2 == <<"s","2">>
S_SP3 == <<"s","3">>
S_SP4 == <<"s","4">>
S_SP5 == <<"s","5">>
S_Q40journaux == <<"4","0"," ","j","o","u","r","n","a","u","x">>
S_Qtramc == <<"t","r","a","m"," ","c">>
S_Qbus == <<"b","u","s">>
S_Qpyrenees == <<"p","y","r","e/","n","e/","e","s">>
S_Qcentre == <<"c","e","n","t","r","e">>
S_Qtramnord == <<"t","r","a","m"," ","n","o","r","d">>
S_Qpyreneescentre ==
    <<"p","y","r","e/","n","e/","e","s"," ","c","e","n","t","r","e">>

\* one Destinations record of an AnnotatedLineRef
Destination(direction, place) ==
    [DirectionRef |-> JDict(direction), PlaceName |-> JList(<<JDict(place)>>)]

\* one AnnotatedLineRef record of lines-discovery.json
AnnotatedLine(ref, name, code, destinations) ==
    [LineRef |-> JDict(ref), LineName |-> JList(<<JDict(name)>>),
     LineCode |-> code, Destinations |-> destinations]

\* one AnnotatedStopPointRef record of stoppoints-discovery.json
AnnotatedStop(ref, name, lines) ==
    [StopPointRef |-> JDict(ref), StopName |-> JDict(name),
     Lines |-> [i \in 1..Len(lines) |-> JDict(lines[i])]]

\* one MonitoredStopVisit of stop-monitoring.json, with the stop it is at
StopVisit(stop, line, direction, destination, aimed, expected) ==
    [MonitoringRef |-> stop, LineRef |-> JDict(line),
     DirectionRef |-> JDict(direction),
     DestinationName |-> JList(<<JDict(destination)>>),
     AimedDepartureTime |-> aimed, ExpectedDepartureTime |-> expected]

T_0810 == <<"0","8",":","1","0">>
T_0812 == <<"0","8",":","1","2">>
T_0820 == <<"0","8",":","2","0">>

BothWays(stop, line, d0, d1) ==
    << StopVisit(stop, line, S_0, d0, T_0820, T_0820),
       StopVisit(stop, line, S_1, d1, T_0810, T_0812) >>

\* A network of three lines with two directions each and five stops.
FullLines == <<
    AnnotatedLine(S_2, S_Bus2, JDict(S_2),
        <<Destination(S_0, S_Gare), Destination(S_1, S_Centre)>>),
    AnnotatedLine(S_C, S_TramC, JDict(S_C),
        <<Destination(S_0, S_LesPyrenees), Destination(S_1, S_Centre)>>),
    AnnotatedLine(S_1, S_Bus1, JNone,
        <<Destination(S_0, S_Gare), Destination(S_1, S_Centre)>>) >>

FullStops == <<
    AnnotatedStop(S_SP1, S_QuaranteJournaux, <<S_C, S_1, S_C, S_2>>),
    AnnotatedStop(S_SP3, S_Journaux, <<S_1, S_2, S_C>>),
    AnnotatedStop(S_SP2, S_40JournauxSud, <<S_1, S_2, S_C>>),
    AnnotatedStop(S_SP4, S_Gare, <<S_1, S_2>>),
    AnnotatedStop(S_SP5, S_Centre, <<S_C>>) >>

FullVisits ==
    BothWays(S_SP1, S_C, S_LesPyrenees, S_Centre)
    \o BothWays(S_SP1, S_1, S_Gare, S_Centre)
    \o BothWays(S_SP1, S_2, S_Gare, S_Centre)
    \o BothWays(S_SP2, S_C, S_LesPyrenees, S_Centre)
    \o BothWays(S_SP2, S_1, S_Gare, S_Centre)
    \o BothWays(S_SP2, S_2, S_Gare, S_Centre)
    \o BothWays(S_SP3, S_C, S_LesPyrenees, S_Centre)
    \o BothWays(S_SP3, S_1, S_Gare, S_Centre)
    \o BothWays(S_SP3, S_2, S_Gare, S_Centre)
    \o << StopVisit(S_SP4, S_1, S_0, S_Gare, T_0810, T_0810),
          StopVisit(S_SP4, S_2, S_0, S_Gare, T_0812, T_0812),
          StopVisit(S_SP5, S_C, S_1, S_Centre, T_0810, T_0820) >>

\* A catalog in which destination records share a key: direction 0 of
\* Tram C comes twice, and two records have no usable direction.
DoubledLines == <<
    AnnotatedLine(S_C, S_TramC, JDict(S_C),
        <<Destination(S_0, S_Centre), Destination(S_X, S_Gare),
          [DirectionRef |-> JNone, PlaceName |-> JList(<<JDict(S_Centre)>>)],
          Destination(S_0, S_LesPyrenees)>>),
    AnnotatedLine(S_2, S_Bus2, JDict(S_2), <<Destination(S_0, S_Gare)>>) >>

\* The contents the data source can have: a full network, nothing at all,
\* or the catalog with shared keys and no stop.
Sources == {"full", "empty", "doubled"}

LinesOf(src) ==
    IF src = "full" THEN FullLines
    ELSE IF src = "doubled" THEN DoubledLines
    ELSE <<>>
StopsOf(src) == IF src = "full" THEN FullStops ELSE <<>>
VisitsOf(src) == IF src = "full" THEN FullVisits ELSE <<>>

\* The first n items of a list (list[:n])
Take(s, n) == SubSeq(s, 1, IF Len(s) < n THEN Len(s) ELSE n)

\* What stop-monitoring.json answers for the request parameters: the visits
\* at MonitoringRef, of LineRef and DirectionRef when these are sent, at most
\* MaximumStopVisits of them.
MonitoringAnswer(src, params) ==
    Take(SelectSeq(VisitsOf(src),
                   LAMBDA v :
                       /\ v.MonitoringRef = params.MonitoringRef
                       /\ params.LineRef # <<>>
                              => get_value(v.LineRef) = params.LineRef[1]
                       /\ params.DirectionRef # <<>>
                              => get_value(v.DirectionRef)
                                     = IntStr(params.DirectionRef[1])),
         params.MaximumStopVisits)


-----------------------------------------------------------------------------
(* Lists *)

\* scores and norms hold the values of fuzzy_match and normalize_text on the
\* strings the calls of this model compare, evaluated once in Init; the
\* client reads a value there and evaluates the function for any other
\* string.
ScoreOf(query, target) ==
    IF <<query, target>> \in DOMAIN scores THEN scores[<<query, target>>]
    ELSE fuzzy_match(query, target)

NormOf(text) ==
    IF text \in DOMAIN norms THEN norms[text] ELSE normalize_text(text)

\* list.sort / sorted with a key: the stable sort.  Item i goes behind the
\* items that must precede it and behind the earlier items it need not
\* precede.
SortStable(s, Before(_, _)) ==
    LET n == Len(s)
        Rank(i) == Cardinality({j \in 1..n :
                                   \/ Before(s[j], s[i])
                                   \/ (j < i /\ ~Before(s[i], s[j]))}) + 1
    IN  [k \in 1..n |-> s[CHOOSE i \in 1..n : Rank(i) = k]]

-----------------------------------------------------------------------------
(* The client: one call, run to completion *)

\* Python's None where a str is expected
None == <<"None">>

\* _lines_cache: None (set = FALSE) or an ordered dict, as its items
NoLinesCache == [set |-> FALSE, items |-> <<>>]

\* The client during one call: its two caches, and what the call did so
\* far.  failAt is the outbound request of this call that fails (0: none).
Start(lc, sc, pop, src, failAt) ==
    [lines_cache |-> lc, stops_cache |-> sc, populated |-> pop,
     source |-> src, failAt |-> failAt, requests |-> 0,
     lineFetches |-> 0, stopFetches |-> <<>>, probes |-> <<>>,
     stopRequests |-> <<>>, raisedBy |-> "none"]

\* a call returns val, or raises
Return(m, val) == [m |-> m, err |-> FALSE, val |-> val]
Raise(m) == [m |-> m, err |-> TRUE, val |-> <<>>]

\* _get: the request is sent; raise_for_status() or the transport raises
\* when this request is the failing one
ClientGet(m, endpoint) ==
    LET n == m.requests + 1
    IN  IF n = m.failAt
        THEN Raise([m EXCEPT !.requests = n, !.raisedBy = endpoint])
        ELSE Return([m EXCEPT !.requests = n], <<>>)

\* a variant that keeps the entry a key already has:
\* found_lines.setdefault(key, info)
DictPutOnce(d, key, info) ==
    IF \E i \in 1..Len(d) : d[i].key = key THEN d
    ELSE Append(d, [key |-> key, info |-> info])

\* found_lines[key] = info
DictPut(d, key, info) ==
    IF \E i \in 1..Len(d) : d[i].key = key
    THEN LET i == CHOOSE i \in 1..Len(d) : d[i].key = key
         IN  [d EXCEPT ![i] = [key |-> key, info |-> info]]
    ELSE Append(d, [key |-> key, info |-> info])

\* for d in destinations: ...
RECURSIVE AddDestinations(_, _, _, _, _)
AddDestinations(found_lines, line_ref, line_name, line_code, destinations) ==
    IF destinations = <<>> THEN found_lines
    ELSE LET d == Head(destinations)
             direction_ref == to_int(get_value(d.DirectionRef))
             place_name == get_value(d.PlaceName)
             key == CacheKey(line_ref, direction_ref)
         IN  AddDestinations(
                 DictPut(found_lines, key,
                         [line_ref |-> line_ref, line_name |-> line_name,
                          line_code |-> line_code, dest_name |-> place_name,
                          direction_ref |-> direction_ref]),
                 line_ref, line_name, line_code, Tail(destinations))

\* for it in items or []: ...
RECURSIVE AddLines(_, _)
AddLines(found_lines, items) ==
    IF items = <<>> THEN found_lines
    ELSE LET it == Head(items)
             line_ref == get_value(it.LineRef)
             line_name == get_value(it.LineName)
         IN  IF line_ref # <<>>
             THEN AddLines(AddDestinations(found_lines, line_ref, line_name,
                                           get_value(it.LineCode),
                                           it.Destinations),
                           Tail(items))
             ELSE AddLines(found_lines, Tail(items))

SortedByLineName(found_lines) ==
    SortStable(found_lines,
               LAMBDA a, b : StrLess(a.info.line_name, b.info.line_name))

\* if self._lines_cache:
LinesCacheHit(m) == m.lines_cache.set /\ m.lines_cache.items # <<>>

\* self._lines_cache = dict(sorted(...)); return self._lines_cache
StoreLines(m, cache) ==
    Return([m EXCEPT !.lines_cache = [set |-> TRUE, items |-> cache]], cache)

\* get_lines from the answer g of the request on
LinesFetched(g) ==
    IF g.err THEN Raise([g.m EXCEPT !.lineFetches = @ + 1])
    ELSE StoreLines([g.m EXCEPT !.lineFetches = @ + 1],
                    SortedByLineName(AddLines(<<>>, LinesOf(g.m.source))))

get_lines(m) ==
    IF LinesCacheHit(m) THEN Return(m, m.lines_cache.items)
    ELSE LinesFetched(ClientGet(m, "lines-discovery"))

\* one visit of get_departures
Visit(v) ==
    LET aimed == v.AimedDepartureTime
        expected == v.ExpectedDepartureTime
    IN  [line_ref |-> get_value(v.LineRef),
         direction_ref |-> to_int(get_value(v.DirectionRef)),
         destination |-> get_value(v.DestinationName),
         aimed |-> aimed, expected |-> expected,
         realtime |-> expected # <<>> /\ aimed # <<>> /\ expected # aimed]

\* x.get("expected") or x.get("aimed") or ""
VisitTime(x) == IF x.expected # <<>> THEN x.expected ELSE x.aimed

\* the visits of an answer, sorted by expected/aimed time
SortedVisits(answer) ==
    SortStable([i \in 1..Len(answer) |-> Visit(answer[i])],
               LAMBDA a, b : StrLess(VisitTime(a), VisitTime(b)))

\* get_departures from the answer g of the request on
DeparturesFetched(g, params) ==
    IF g.err THEN Raise(g.m)
    ELSE Return(g.m, SortedVisits(MonitoringAnswer(g.m.source, params)))

get_departures(m, stop_point_ref, line_ref, direction_ref, max_visits) ==
    DeparturesFetched(
        ClientGet(m, "stop-monitoring"),
        [MonitoringRef |-> stop_point_ref,
         LineRef |-> IF line_ref # <<>> THEN <<line_ref>> ELSE <<>>,
         DirectionRef |-> IF direction_ref # -1 THEN <<direction_ref>>
                          ELSE <<>>,
         MaximumStopVisits |-> max_visits])

\* data.get("Siri", {}).get("ServiceDelivery", {})
\*     .get("StopMonitoringDelivery", []) for the value the answer has there
Deliveries(container) ==
    IF container.t = "absent" THEN JList(<<>>) ELSE container

\* d.get("MonitoredStopVisit") or []
VisitsOfDelivery(d) ==
    IF d.MonitoredStopVisit.t = "list" THEN d.MonitoredStopVisit.items
    ELSE <<>>

\* the visits of the deliveries, in the order of the two loops
RECURSIVE AllVisits(_)
AllVisits(deliveries) ==
    IF deliveries = <<>> THEN <<>>
    ELSE VisitsOfDelivery(Head(deliveries)) \o AllVisits(Tail(deliveries))

\* get_departures from deliveries on: `for d in deliveries` raises TypeError
\* when deliveries is None
DeparturesParsed(deliveries) ==
    IF deliveries.t # "list" THEN [err |-> TRUE, val |-> <<>>]
    ELSE [err |-> FALSE, val |-> SortedVisits(AllVisits(deliveries.items))]

\* what one probe of get_stops_for_line asked and got
ProbeRecord(stop_point_ref, line_ref, direction_ref, d) ==
    [stop_point_ref |-> stop_point_ref, line_ref |-> line_ref,
     direction_ref |-> direction_ref, failed |-> d.err,
     visits |-> Len(d.val)]

\* for l in lines: if get_value(l) == line_ref: ...; break
RECURSIVE ListsLine(_, _)
ListsLine(lines, line_ref) ==
    IF lines = <<>> THEN FALSE
    ELSE IF get_value(Head(lines)) = line_ref THEN TRUE
    ELSE ListsLine(Tail(lines), line_ref)

\* a variant that keeps the stop whatever the probe returned
ProbeConfirmsAlways(departures) == TRUE

\* if departures:
ProbeConfirms(departures) == departures # <<>>

\* the stop's entry of results
StopEntry(stop_name, stop_point_ref, direction_ref) ==
    [stop_name |-> stop_name, stop_point_ref |-> stop_point_ref,
     direction_ref |-> direction_ref]

\* the client after the probe d, which is added to the call's record
Probed(d, stop_point_ref, line_ref, direction_ref) ==
    [d.m EXCEPT !.probes = Append(@, ProbeRecord(stop_point_ref, line_ref,
                                                 direction_ref, d))]

\* for it in items or []: ... (the loop of get_stops_for_line); d is the
\* probe of the first item when that item lists line_ref
RECURSIVE CollectStops(_, _, _, _, _)
RECURSIVE AfterProbe(_, _, _, _, _)
AfterProbe(d, items, line_ref, direction_ref, results) ==
    IF d.err
    THEN Raise(Probed(d, get_value(Head(items).StopPointRef), line_ref,
                      direction_ref))
    ELSE CollectStops(
             Probed(d, get_value(Head(items).StopPointRef), line_ref,
                    direction_ref),
             Tail(items), line_ref, direction_ref,
             IF ProbeConfirms(d.val)
             THEN Append(results,
                         StopEntry(get_value(Head(items).StopName),
                                   get_value(Head(items).StopPointRef),
                                   direction_ref))
             ELSE results)

CollectStops(m, items, line_ref, direction_ref, results) ==
    IF items = <<>> THEN Return(m, results)
    ELSE IF ~ListsLine(Head(items).Lines, line_ref)
         THEN CollectStops(m, Tail(items), line_ref, direction_ref, results)
         ELSE AfterProbe(
                  get_departures(m, get_value(Head(items).StopPointRef),
                                 line_ref, direction_ref, 1),
                  items, line_ref, direction_ref, results)

\* a variant that sorts by the name as it is: key=x.get("stop_name", "")
SortedByRawStopName(results) ==
    SortStable(results, LAMBDA a, b : StrLess(a.stop_name, b.stop_name))

\* results.sort(key=lambda x: normalize_text(x.get("stop_name", "")))
SortedByStopName(results) ==
    SortStable(results,
               LAMBDA a, b : StrLess(NormOf(a.stop_name),
                                     NormOf(b.stop_name)))

\* a variant that tests the cached list itself: if self._stops_cache.get(key):
StopsCacheHitIfNonEmpty(m, cache_key) ==
    cache_key \in DOMAIN m.stops_cache /\ m.stops_cache[cache_key] # <<>>

\* if cache_key in self._stops_cache:
StopsCacheHit(m, cache_key) == cache_key \in DOMAIN m.stops_cache

\* a variant that replaces the whole cache:
\* self._stops_cache = {cache_key: results}
StoreStopsAlone(m, cache_key, results, how) ==
    Return([m EXCEPT !.stops_cache = (cache_key :> results),
                     !.populated = (cache_key :> how) @@ @],
           results)

\* self._stops_cache[cache_key] = results; return results
StoreStops(m, cache_key, results, how) ==
    Return([m EXCEPT !.stops_cache = (cache_key :> results) @@ @,
                     !.populated = (cache_key :> how) @@ @],
           results)

\* the end of get_stops_for_line, c being what the loop came to and
\* probesBefore the number of probes the call had made before the loop
StopsCollected(c, line_ref, direction_ref, probesBefore) ==
    IF c.err THEN Raise(c.m)
    ELSE StoreStops(c.m, CacheKey(line_ref, direction_ref),
                    SortedByStopName(c.val),
                    [line_ref |-> line_ref, direction_ref |-> direction_ref,
                     source |-> c.m.source,
                     probes |-> SubSeq(c.m.probes, probesBefore + 1,
                                       Len(c.m.probes))])

\* a variant that puts the empty list in the cache before the request
StopsFetchedCachingFirst(g, line_ref, direction_ref) ==
    IF g.err
    THEN Raise([g.m EXCEPT
                   !.stopFetches =
                       Append(@, CacheKey(line_ref, direction_ref)),
                   !.stops_cache =
                       (CacheKey(line_ref, direction_ref) :> <<>>) @@ @])
    ELSE StopsCollected(
             CollectStops([g.m EXCEPT !.stopFetches =
                               Append(@, CacheKey(line_ref, direction_ref))],
                          StopsOf(g.m.source), line_ref, direction_ref, <<>>),
             line_ref, direction_ref, Len(g.m.probes))

\* get_stops_for_line from the answer g of the discovery request on
StopsFetched(g, line_ref, direction_ref) ==
    IF g.err
    THEN Raise([g.m EXCEPT !.stopFetches =
                               Append(@, CacheKey(line_ref, direction_ref))])
    ELSE StopsCollected(
             CollectStops([g.m EXCEPT !.stopFetches =
                               Append(@, CacheKey(line_ref, direction_ref))],
                          StopsOf(g.m.source), line_ref, direction_ref, <<>>),
             line_ref, direction_ref, Len(g.m.probes))

\* get_stops_for_line from the cache test on
StopsLookedUp(m, line_ref, direction_ref) ==
    IF StopsCacheHit(m, CacheKey(line_ref, direction_ref))
    THEN Return(m, m.stops_cache[CacheKey(line_ref, direction_ref)])
    ELSE StopsFetched(ClientGet(m, "stoppoints-discovery"), line_ref,
                      direction_ref)

\* stopRequests logs the key of every call of get_stops_for_line
get_stops_for_line(m, line_ref, direction_ref) ==
    StopsLookedUp([m EXCEPT !.stopRequests =
                       Append(@, CacheKey(line_ref, direction_ref))],
                  line_ref, direction_ref)

-----------------------------------------------------------------------------
(* search_stop, find_line_by_query *)

LineThreshold == ScoreScale \div 2           \* 0.5
DestThreshold == (3 * ScoreScale) \div 10    \* 0.3
StopThreshold == (3 * ScoreScale) \div 10    \* 0.3

MaxLinesSearched == 5
MaxResults == 10

Max(a, b) == IF a >= b THEN a ELSE b

\* max(fuzzy_match(q, line_name), fuzzy_match(q, line_code))
LineScore(query, line_info) ==
    Max(ScoreOf(query, line_info.line_name),
        ScoreOf(query, line_info.line_code))

\* a variant that holds the destination to the line threshold
RECURSIVE MatchingLinesOneThreshold(_, _, _)
MatchingLinesOneThreshold(lines, line_query, dest_query) ==
    IF lines = <<>> THEN <<>>
    ELSE LET line_info == Head(lines).info
             rest == MatchingLinesOneThreshold(Tail(lines), line_query,
                                               dest_query)
         IN  IF line_query # <<>>
                    /\ LineScore(line_query, line_info) < LineThreshold
             THEN rest
             ELSE IF dest_query # <<>>
                        /\ ScoreOf(dest_query, line_info.dest_name)
                               < LineThreshold
             THEN rest
             ELSE <<line_info>> \o rest

\* the loop that fills matching_lines
RECURSIVE MatchingLines(_, _, _)
MatchingLines(lines, line_query, dest_query) ==
    IF lines = <<>> THEN <<>>
    ELSE LET line_info == Head(lines).info
             rest == MatchingLines(Tail(lines), line_query, dest_query)
         IN  IF line_query # <<>>
                    /\ LineScore(line_query, line_info) < LineThreshold
             THEN rest
             ELSE IF dest_query # <<>>
                        /\ ScoreOf(dest_query, line_info.dest_name)
                               < DestThreshold
             THEN rest
             ELSE <<line_info>> \o rest

\* the result of a search without stop_query
LineResult(line) ==
    [line_ref |-> line.line_ref, line_name |-> line.line_name,
     line_code |-> line.line_code, direction_ref |-> line.direction_ref,
     dest_name |-> line.dest_name, stop_point_ref |-> None,
     stop_name |-> None]

\* for stop in stops: ... scored_results.append({...})
RECURSIVE ScoredStops(_, _, _)
ScoredStops(stops, line_info, stop_query) ==
    IF stops = <<>> THEN <<>>
    ELSE LET stop == Head(stops)
             score == ScoreOf(stop_query, stop.stop_name)
             rest == ScoredStops(Tail(stops), line_info, stop_query)
         IN  IF score >= StopThreshold
             THEN <<[score |-> score,
                     stop_point_ref |-> stop.stop_point_ref,
                     stop_name |-> stop.stop_name,
                     line_ref |-> line_info.line_ref,
                     line_name |-> line_info.line_name,
                     line_code |-> line_info.line_code,
                     direction_ref |-> line_info.direction_ref,
                     dest_name |-> line_info.dest_name]>> \o rest
             ELSE rest

\* for line_info in matching_lines[:5]: ...; g is the stop list of the
\* first line
RECURSIVE SearchLines(_, _, _, _)
RECURSIVE AfterStops(_, _, _, _)
AfterStops(g, lines, stop_query, scored_results) ==
    IF g.err THEN Raise(g.m)
    ELSE SearchLines(g.m, Tail(lines), stop_query,
                     scored_results
                         \o ScoredStops(g.val, Head(lines), stop_query))

SearchLines(m, lines, stop_query, scored_results) ==
    IF lines = <<>> THEN Return(m, scored_results)
    ELSE AfterStops(get_stops_for_line(m, Head(lines).line_ref,
                                       Head(lines).direction_ref),
                    lines, stop_query, scored_results)

\* a variant that leaves the results in the order they were collected
SortedByScoreNot(scored_results) == scored_results

\* scored_results.sort(key=lambda x: -x["score"])
SortedByScore(scored_results) ==
    SortStable(scored_results, LAMBDA a, b : a.score > b.score)

\* r.pop("score", None)
PopScore(r) ==
    [stop_point_ref |-> r.stop_point_ref, stop_name |-> r.stop_name,
     line_ref |-> r.line_ref, line_name |-> r.line_name,
     line_code |-> r.line_code, direction_ref |-> r.direction_ref,
     dest_name |-> r.dest_name]

\* a variant that returns every result
TopResultsUncut(results) == results

\* results[:10]
TopResults(results) == Take(results, MaxResults)

\* a variant that searches every matching line
LinesToSearchAll(matching_lines) == matching_lines

\* matching_lines[:5]
LinesToSearch(matching_lines) == Take(matching_lines, MaxLinesSearched)

\* for r in scored_results: r.pop("score", None); results.append(r)
WithoutScores(scored_results) ==
    [i \in 1..Len(scored_results) |-> PopScore(scored_results[i])]

\* the end of search_stop with a stop_query, r being what the loop over
\* the lines came to
StopsSearched(r) ==
    IF r.err THEN Raise(r.m)
    ELSE Return(r.m, TopResults(WithoutScores(SortedByScore(r.val))))

\* a variant that returns every matching line when there is no stop_query
SearchMatchingAll(m, matching_lines, stop_query) ==
    IF stop_query = <<>>
    THEN Return(m, [i \in 1..Len(matching_lines) |->
                       LineResult(matching_lines[i])])
    ELSE StopsSearched(SearchLines(m, LinesToSearch(matching_lines),
                                   stop_query, <<>>))

\* a variant that looks up the stops of the first matching line before it
\* tests stop_query
FirstLineLookedUp(g, line) ==
    IF g.err THEN Raise(g.m) ELSE Return(g.m, <<LineResult(line)>>)

SearchMatchingEager(m, matching_lines, stop_query) ==
    IF stop_query = <<>>
    THEN IF matching_lines # <<>>
         THEN FirstLineLookedUp(
                  get_stops_for_line(m, matching_lines[1].line_ref,
                                     matching_lines[1].direction_ref),
                  matching_lines[1])
         ELSE Return(m, <<>>)
    ELSE StopsSearched(SearchLines(m, LinesToSearch(matching_lines),
                                   stop_query, <<>>))

\* search_stop from matching_lines on
SearchMatching(m, matching_lines, stop_query) ==
    IF stop_query = <<>>
    THEN IF matching_lines # <<>>
         THEN Return(m, <<LineResult(matching_lines[1])>>)
         ELSE Return(m, <<>>)
    ELSE StopsSearched(SearchLines(m, LinesToSearch(matching_lines),
                                   stop_query, <<>>))

\* a variant that catches the exception of get_lines and returns []
LinesSearchedCatching(g, stop_query, line_query, dest_query) ==
    IF g.err THEN Return(g.m, <<>>)
    ELSE SearchMatching(g.m, MatchingLines(g.val, line_query, dest_query),
                        stop_query)

\* search_stop from the lines g of get_lines on
LinesSearched(g, stop_query, line_query, dest_query) ==
    IF g.err THEN Raise(g.m)
    ELSE SearchMatching(g.m, MatchingLines(g.val, line_query, dest_query),
                        stop_query)

\* None, "" and an absent argument all fail `if query:`; they are <<>>
search_stop(m, stop_query, line_query, dest_query) ==
    LinesSearched(get_lines(m), stop_query, line_query, dest_query)

\* a variant in which an equal score replaces the best: if score >= best_score
RECURSIVE BestLineLastWins(_, _, _, _)
BestLineLastWins(lines, query, best_match, best_score) ==
    IF lines = <<>> THEN [best_match |-> best_match, best_score |-> best_score]
    ELSE IF LineScore(query, Head(lines).info) >= best_score
         THEN BestLineLastWins(Tail(lines), query, <<Head(lines).info>>,
                               LineScore(query, Head(lines).info))
         ELSE BestLineLastWins(Tail(lines), query, best_match, best_score)

\* the loop of find_line_by_query; best_match is <<>> for None
RECURSIVE BestLine(_, _, _, _)
BestLine(lines, query, best_match, best_score) ==
    IF lines = <<>> THEN [best_match |-> best_match, best_score |-> best_score]
    ELSE IF LineScore(query, Head(lines).info) > best_score
         THEN BestLine(Tail(lines), query, <<Head(lines).info>>,
                       LineScore(query, Head(lines).info))
         ELSE BestLine(Tail(lines), query, best_match, best_score)

\* return best_match if best_score >= 0.5 else None
BestOrNone(b) == IF b.best_score >= LineThreshold THEN b.best_match ELSE <<>>

\* find_line_by_query from the lines g of get_lines on
LinesScanned(g, query) ==
    IF g.err THEN Raise(g.m)
    ELSE Return(g.m, BestOrNone(BestLine(g.val, query, <<>>, 0)))

\* returns <<line_info>>, or <<>> for None
find_line_by_query(m, query) == LinesScanned(get_lines(m), query)

-----------------------------------------------------------------------------
(* The state machine *)

\* how far into a call the failing request can be
MaxFailAt == 2

StopQueries == {<<>>, S_Q40journaux}
LineQueries == {<<>>, S_Qtramc}
DestQueries == {<<>>, S_Qpyrenees, S_Qcentre, S_Qtramnord}
FindQueries == {S_Qtramc, S_Qbus, S_Gare}
StopsForLineArgs == {<<S_C, 0>>, <<S_X, -1>>}

NoCall ==
    [op |-> "none", stop_query |-> <<>>, line_query |-> <<>>,
     dest_query |-> <<>>, line_ref |-> <<>>, direction_ref |-> 0,
     err |-> FALSE, ret |-> <<>>, lineFetches |-> 0, stopFetches |-> <<>>,
     probes |-> <<>>, raisedBy |-> "none", source |-> "none",
     linesFetchedBefore |-> FALSE, stopsReturnedBefore |-> {},
     stopRequests |-> <<>>]

\* no fetch has succeeded yet
NothingFetched == [lines |-> FALSE, stops |-> {}]

NoText == [fn |-> "none", input |-> <<>>, output |-> <<>>]

\* a dict of attributes with str keys is a function on its keys; .get(key)
\* of a missing key is None, which is <<>> like the empty str
EmptyDict == [k \in {} |-> <<>>]

AttrGet(d, key) == IF key \in DOMAIN d THEN d[key] ELSE <<>>

AttrSet(d, key, value) ==
    [k \in DOMAIN d \cup {key} |-> IF k = key THEN value ELSE d[k]]

AttrPop(d, key) == [k \in DOMAIN d \ {key} |-> d[k]]

\* no request handled yet
NoRequest ==
    [intent |-> "none", outcome |-> "none", up |-> FALSE,
     attrs |-> EmptyDict]

\* a new session of a user with nothing stored
NoSkill == [session |-> EmptyDict, stored |-> EmptyDict, last |-> NoRequest]

\* no invocation is under way
NoRace == <<>>

Range(s) == {s[i] : i \in DOMAIN s}

\* the strings a call can pass to fuzzy_match and normalize_text
Queries ==
    StopQueries \cup LineQueries \cup DestQueries \cup FindQueries
        \cup {S_Qtramnord, S_Qpyreneescentre}
        \cup {S_QuaranteJournaux, S_TramC, S_LesPyrenees}

LineLabels(it) ==
    {get_value(it.LineName), get_value(it.LineCode)}
        \cup {get_value(d.PlaceName) : d \in Range(it.Destinations)}

StopLabels == UNION {{get_value(it.StopName) : it \in Range(StopsOf(src))} :
                        src \in Sources}

Labels ==
    StopLabels
        \cup UNION {UNION {LineLabels(it) : it \in Range(LinesOf(src))} :
                       src \in Sources}

Init ==
    /\ lines_cache = NoLinesCache
    /\ stops_cache = <<>>
    /\ populated = <<>>
    /\ source \in Sources
    /\ call = NoCall
    /\ fetched = NothingFetched
    /\ txt = NoText
    /\ skill = NoSkill
    /\ race = NoRace
    /\ scores = [p \in Queries \X Labels |-> fuzzy_match(p[1], p[2])]
    /\ norms = [s \in StopLabels |-> normalize_text(s)]

\* the client as a call finds it
Client(failAt) == Start(lines_cache, stops_cache, populated, source, failAt)

\* the keys whose stop list a call got from get_stops_for_line after a
\* discovery fetch: every key it fetched for, but the last one when the
\* call raised
KeysReturned(r) ==
    LET n == Len(r.m.stopFetches)
    IN  {r.m.stopFetches[i] : i \in 1..(IF r.err /\ n > 0 THEN n - 1 ELSE n)}

\* the call has run to its return or its exception
Completes(r, what) ==
    /\ lines_cache' = r.m.lines_cache
    /\ stops_cache' = r.m.stops_cache
    /\ populated' = r.m.populated
    /\ fetched' = [lines |-> \/ fetched.lines
                             \/ /\ r.m.lineFetches > 0
                                /\ r.m.raisedBy # "lines-discovery",
                   stops |-> fetched.stops \cup KeysReturned(r)]
    /\ call' = [what EXCEPT !.err = r.err, !.ret = r.val,
                            !.lineFetches = r.m.lineFetches,
                            !.stopFetches = r.m.stopFetches,
                            !.probes = r.m.probes,
                            !.stopRequests = r.m.stopRequests,
                            !.raisedBy = r.m.raisedBy,
                            !.source = source,
                            !.linesFetchedBefore = fetched.lines,
                            !.stopsReturnedBefore = fetched.stops]
    /\ UNCHANGED <<source, txt, scores, norms, race>>

GetLines ==
    \E failAt \in 0..MaxFailAt :
        /\ Completes(get_lines(Client(failAt)),
                     [NoCall EXCEPT !.op = "get_lines"])
        /\ UNCHANGED skill

GetStopsForLine ==
    \E a \in StopsForLineArgs, failAt \in 0..MaxFailAt :
        /\ Completes(get_stops_for_line(Client(failAt), a[1], a[2]),
                     [NoCall EXCEPT !.op = "get_stops_for_line",
                                    !.line_ref = a[1], !.direction_ref = a[2]])
        /\ UNCHANGED skill

SearchStop ==
    \E sq \in StopQueries, lq \in LineQueries, dq \in DestQueries,
       failAt \in 0..MaxFailAt :
        /\ Completes(search_stop(Client(failAt), sq, lq, dq),
                     [NoCall EXCEPT !.op = "search_stop", !.stop_query = sq,
                                    !.line_query = lq, !.dest_query = dq])
        /\ UNCHANGED skill

FindLineByQuery ==
    \E q \in FindQueries, failAt \in 0..MaxFailAt :
        /\ Completes(find_line_by_query(Client(failAt), q),
                     [NoCall EXCEPT !.op = "find_line_by_query",
                                    !.line_query = q])
        /\ UNCHANGED skill

\* the data source gets its content
SourceFills ==
    /\ source = "empty"
    /\ source' = "full"
    /\ UNCHANGED <<lines_cache, stops_cache, populated, call, fetched, txt,
                   scores, norms, skill, race>>

Next ==
    \/ GetLines
    \/ GetStopsForLine
    \/ SearchStop
    \/ FindLineByQuery
    \/ SourceFills

Spec == Init /\ [][Next]_vars


-----------------------------------------------------------------------------
(* The functions that read no client state, on their own *)

\* how many parts a text is put together from
MaxParts == 3
MaxQueryWords == 2
MaxDeliveries == 2

S_arret == <<"a","r","r","e","t">>
S_journaux == <<"j","o","u","r","n","a","u","x">>
S_ArretQuaranteJournaux ==
    S_arret \o <<" ">> \o FRENCH_NUMBERS[24][1] \o <<" ">> \o S_journaux
S_Arret40Journaux ==
    S_arret \o <<" ">> \o <<"4","0">> \o <<" ">> \o S_journaux

TextParts ==
    { <<"d","i","x">>, <<"s","e","p","t">>, <<"h","u","i","t">>,
      <<"u","n">>, <<"e">>, <<"-">>, <<" ">>, <<"E/">>, <<"1">>,
      <<"D">>, <<"_">> }

RECURSIVE Texts(_)
Texts(n) ==
    IF n = 0 THEN {<<>>}
    ELSE Texts(n - 1) \cup {t \o w : t \in Texts(n - 1), w \in TextParts}

NumberWords == {FRENCH_NUMBERS[k][1] : k \in DOMAIN FRENCH_NUMBERS}

TextInputs == Texts(MaxParts) \cup NumberWords \cup {S_ArretQuaranteJournaux}

\* one evaluation per behaviour
NormalizeText ==
    /\ txt = NoText
    /\ \E s \in TextInputs :
           txt' = [fn |-> "normalize_text", input |-> s,
                   output |-> normalize_text(s)]
    /\ UNCHANGED <<lines_cache, stops_cache, source, call, populated,
                   fetched, scores, norms, skill, race>>

\* the words the queries of fuzzy_match are made of
W_tram == <<"t","r","a","m">>
W_tramway == <<"t","r","a","m","w","a","y">>
W_le == <<"l","e">>
W_40 == <<"4","0">>
W_quarante == <<"q","u","a","r","a","n","t","e">>

FuzzyWords == {W_tram, W_tramway, W_le, W_40, W_quarante}

\* the texts of at most n words, a space between two words
RECURSIVE Phrases(_)
Phrases(n) ==
    IF n = 0 THEN {<<>>}
    ELSE Phrases(n - 1)
             \cup FuzzyWords
             \cup {t \o <<" ">> \o w : t \in Phrases(n - 1) \ {<<>>},
                                      w \in FuzzyWords}

FuzzyQueries == Phrases(MaxQueryWords)

FuzzyTargets ==
    { <<>>, S_TramC, S_C, S_QuaranteJournaux, S_40JournauxSud, W_tram, W_le,
      W_40, W_tram \o <<" ">> \o W_40, W_40 \o <<" ">> \o W_tram,
      W_40 \o <<"-">> \o W_tramway \o <<" ">> \o W_le,
      W_le \o <<" ">> \o W_tram \o <<" ">> \o W_quarante }

\* fuzzy_match of one query against each target, one evaluation per behaviour
FuzzyMatch ==
    /\ txt = NoText
    /\ \E q \in FuzzyQueries :
           txt' = [fn |-> "fuzzy_match", input |-> q,
                   output |-> [t \in FuzzyTargets |-> fuzzy_match(q, t)]]
    /\ UNCHANGED <<lines_cache, stops_cache, source, call, populated,
                   fetched, scores, norms, skill, race>>

\* a visit whose fields are absent, empty or not of the expected shape
OddVisit ==
    [MonitoringRef |-> S_SP1, LineRef |-> JNone, DirectionRef |-> JDict(S_X),
     DestinationName |-> JList(<<>>), AimedDepartureTime |-> <<>>,
     ExpectedDepartureTime |-> <<>>]

GoodVisit == StopVisit(S_SP1, S_C, S_1, S_Centre, T_0810, T_0812)

\* what a delivery can hold under MonitoredStopVisit
ShapedVisitLists ==
    { JAbsent, JNone, JList(<<>>), JList(<<GoodVisit>>), JList(<<OddVisit>>),
      JList(<<GoodVisit, OddVisit>>) }

\* the lists of at most n deliveries
RECURSIVE ShapedDeliveries(_)
ShapedDeliveries(n) ==
    IF n = 0 THEN {<<>>}
    ELSE ShapedDeliveries(n - 1)
             \cup {Append(ds, [MonitoredStopVisit |-> v]) :
                       ds \in ShapedDeliveries(n - 1), v \in ShapedVisitLists}

\* what the answer of stop-monitoring.json can hold under
\* StopMonitoringDelivery
ShapedContainers ==
    {JAbsent, JNone} \cup {JList(ds) : ds \in ShapedDeliveries(MaxDeliveries)}

\* get_departures on an answer of one of these shapes; the call leaves the
\* caches alone
GetDeparturesShaped ==
    /\ txt = NoText
    /\ \E c \in ShapedContainers :
           txt' = [fn |-> "get_departures", input |-> c,
                   output |-> DeparturesParsed(Deliveries(c))]
    /\ UNCHANGED <<lines_cache, stops_cache, source, call, populated,
                   fetched, scores, norms, skill, race>>

NextText == NormalizeText \/ FuzzyMatch \/ GetDeparturesShaped

\* these functions read neither the caches nor the data source: one of its
\* contents is enough
InitText == Init /\ source = "full"

SpecText == InitText /\ [][NextText]_vars

-----------------------------------------------------------------------------
(* The skill (src/lambda/lambda_function.py): the favourite dialog *)

\* DEFAULT_CONFIG
DEFAULT_CONFIG ==
    [stop_name |-> S_QuaranteJournaux, line_name |-> S_TramC,
     dest_name |-> S_LesPyrenees]

\* the slot values a request can carry; <<>> is a slot that was not filled
StopSlots == {<<>>, S_Q40journaux}
LineSlots == {<<>>, S_Qtramc, S_Qbus}
DestSlots == DestQueries

\* a or b
Or(a, b) == IF a # <<>> /\ a # None THEN a ELSE b

\* the attributes of a favourite, from the first search result and the
\* names to fall back on
Favourite(result, stop_name, line_name, dest_name) ==
    [stop_point_ref |-> result.stop_point_ref,
     stop_name |-> Or(result.stop_name, stop_name),
     line_ref |-> result.line_ref,
     line_name |-> Or(result.line_name, line_name),
     direction_ref |-> result.direction_ref,
     dest_name |-> Or(result.dest_name, dest_name)]

\* get_persistent_attributes: the stored attributes when the store answers
\* and holds some; else the session attributes.  up is whether the
\* persistence adapter exists and its store answers during this request.
get_persistent_attributes(sk, up) ==
    IF up /\ DOMAIN sk.stored # {} THEN sk.stored
    ELSE IF DOMAIN sk.session # {} THEN sk.session
    ELSE EmptyDict

\* save_persistent_attributes: the skill after it
save_persistent_attributes(sk, up, attrs) ==
    IF up THEN [sk EXCEPT !.stored = attrs]
    ELSE [sk EXCEPT !.session = attrs]

\* a variant that removes pending_stop_name alone
WithoutPendingStop(session) == AttrPop(session, "pending_stop_name")

\* session.pop("pending_stop_name", None)
\* session.pop("pending_line_name", None)
WithoutPending(session) ==
    AttrPop(AttrPop(session, "pending_stop_name"), "pending_line_name")

\* the request just handled
Request(intent, outcome, up, attrs) ==
    [intent |-> intent, outcome |-> outcome, up |-> up, attrs |-> attrs]

\* a handler that does not call the client leaves it as it is
ClientUntouched ==
    UNCHANGED <<lines_cache, stops_cache, source, call, populated, fetched,
                txt, scores, norms, race>>

\* SetFavoriteStopIntentHandler.handle
SetFavoriteStopIntent ==
    /\ \E slot_stop \in StopSlots :
           skill' =
               IF slot_stop = <<>>
               THEN [skill EXCEPT
                        !.last = Request("SetFavoriteStopIntent", "reprompt",
                                         FALSE, EmptyDict)]
               ELSE [skill EXCEPT
                        !.session = AttrSet(@, "pending_stop_name", slot_stop),
                        !.last = Request("SetFavoriteStopIntent", "pending",
                                         FALSE, EmptyDict)]
    /\ ClientUntouched

\* SetFavoriteLineIntentHandler.handle; an exception of find_line_by_query
\* goes to CatchAllExceptionHandler, after the session was set
SetFavoriteLineIntent ==
    \E slot_line \in LineSlots, failAt \in 0..MaxFailAt :
        IF slot_line = <<>>
        THEN /\ skill' = [skill EXCEPT
                             !.last = Request("SetFavoriteLineIntent",
                                              "reprompt", FALSE, EmptyDict)]
             /\ ClientUntouched
        ELSE /\ Completes(find_line_by_query(Client(failAt), slot_line),
                          [NoCall EXCEPT !.op = "find_line_by_query",
                                         !.line_query = slot_line])
             /\ skill' = [skill EXCEPT
                             !.session = AttrSet(@, "pending_line_name",
                                                 slot_line),
                             !.last = Request("SetFavoriteLineIntent",
                                              IF call'.err THEN "error"
                                              ELSE "pending",
                                              FALSE, EmptyDict)]

\* SetFavoriteDirectionIntentHandler.handle once search_stop has returned
\* or raised.  session is the dict the handler read at its start: what
\* save_persistent_attributes puts in the session attributes is replaced by
\* it, less the two pending names.
DirectionSearched(sk, err, search_results, slot_dest, up) ==
    IF err
    THEN [sk EXCEPT !.last = Request("SetFavoriteDirectionIntent", "error",
                                     up, EmptyDict)]
    ELSE IF search_results = <<>>
    THEN [sk EXCEPT !.last = Request("SetFavoriteDirectionIntent",
                                     "not-found", up, EmptyDict)]
    ELSE LET session == sk.session
             attrs == Favourite(search_results[1],
                                AttrGet(session, "pending_stop_name"),
                                AttrGet(session, "pending_line_name"),
                                slot_dest)
         IN  [save_persistent_attributes(sk, up, attrs) EXCEPT
                 !.session = WithoutPending(session),
                 !.last = Request("SetFavoriteDirectionIntent", "saved",
                                  up, attrs)]

SetFavoriteDirectionIntent ==
    \E slot_dest \in DestSlots, failAt \in 0..MaxFailAt, up \in BOOLEAN :
        IF \/ AttrGet(skill.session, "pending_stop_name") = <<>>
           \/ AttrGet(skill.session, "pending_line_name") = <<>>
        THEN /\ skill' = [skill EXCEPT
                             !.last = Request("SetFavoriteDirectionIntent",
                                              "incomplete", up, EmptyDict)]
             /\ ClientUntouched
        ELSE /\ Completes(
                    search_stop(Client(failAt),
                                AttrGet(skill.session, "pending_stop_name"),
                                AttrGet(skill.session, "pending_line_name"),
                                slot_dest),
                    [NoCall EXCEPT
                        !.op = "search_stop",
                        !.stop_query = AttrGet(skill.session,
                                               "pending_stop_name"),
                        !.line_query = AttrGet(skill.session,
                                               "pending_line_name"),
                        !.dest_query = slot_dest])
             /\ skill' = DirectionSearched(skill, call'.err, call'.ret,
                                           slot_dest, up)

\* get_config_or_default once the search for the default stop has returned
DefaultSearched(attrs, search_results) ==
    IF search_results # <<>>
    THEN AttrSet(Favourite(search_results[1], DEFAULT_CONFIG.stop_name,
                           DEFAULT_CONFIG.line_name,
                           DEFAULT_CONFIG.dest_name),
                 "is_default", TRUE)
    ELSE attrs

\* GetFavoriteIntentHandler.handle, with get_config_or_default: the
\* favourite it speaks of is in last.attrs
GetFavoriteIntent ==
    \E failAt \in 0..MaxFailAt, up \in BOOLEAN :
        IF AttrGet(get_persistent_attributes(skill, up), "stop_point_ref")
               # <<>>
        THEN /\ skill' = [skill EXCEPT
                             !.last = Request(
                                 "GetFavoriteIntent", "favourite", up,
                                 get_persistent_attributes(skill, up))]
             /\ ClientUntouched
        ELSE /\ Completes(search_stop(Client(failAt),
                                      DEFAULT_CONFIG.stop_name,
                                      DEFAULT_CONFIG.line_name,
                                      DEFAULT_CONFIG.dest_name),
                          [NoCall EXCEPT
                              !.op = "search_stop",
                              !.stop_query = DEFAULT_CONFIG.stop_name,
                              !.line_query = DEFAULT_CONFIG.line_name,
                              !.dest_query = DEFAULT_CONFIG.dest_name])
             /\ skill' = [skill EXCEPT
                             !.last = Request(
                                 "GetFavoriteIntent",
                                 IF call'.err THEN "error" ELSE "default",
                                 up,
                                 IF call'.err THEN EmptyDict
                                 ELSE DefaultSearched(
                                          get_persistent_attributes(skill,
                                                                    up),
                                          call'.ret))]

\* ClearFavoriteIntentHandler.handle
ClearFavoriteIntent ==
    /\ \E up \in BOOLEAN :
           skill' = [save_persistent_attributes(skill, up, EmptyDict) EXCEPT
                        !.last = Request("ClearFavoriteIntent", "cleared",
                                         up, EmptyDict)]
    /\ ClientUntouched

\* the requests of one session, one handler at a time
NextSkill ==
    \/ SetFavoriteStopIntent
    \/ SetFavoriteLineIntent
    \/ SetFavoriteDirectionIntent
    \/ GetFavoriteIntent
    \/ ClearFavoriteIntent

\* the dialog in the world whose data source has its content; a search that
\* finds nothing happens there too
InitSkill == Init /\ source = "full"

SpecSkill == InitSkill /\ [][NextSkill]_vars

-----------------------------------------------------------------------------
(* Two invocations of get_stops_for_line on the one tbm_client *)

\* what the two invocations can ask for
RaceArgs == {<<S_C, 0>>, <<S_C, 1>>}

\* an invocation at its cache test: pc is the place it has reached, items
\* the discovered records it has still to scan, results its local list,
\* world what the data source served at its discovery request
Invocation(line_ref, direction_ref) ==
    [pc |-> "test", line_ref |-> line_ref, direction_ref |-> direction_ref,
     items |-> <<>>, results |-> <<>>, world |-> "none", stored |-> FALSE,
     ret |-> <<>>]

RaceKey(inv) == CacheKey(inv.line_ref, inv.direction_ref)

\* the client as a step finds it; the one request of the step fails or not
RaceClient(fails) == Client(IF fails THEN 1 ELSE 0)

\* what a step of the invocations leaves alone, the stop cache apart
RaceFrame ==
    UNCHANGED <<lines_cache, source, call, fetched, txt, scores, norms,
                skill>>

\* two requests reach the module-level client at once
TwoInvocations ==
    /\ race = NoRace
    /\ \E a \in RaceArgs, b \in RaceArgs :
           race' = <<Invocation(a[1], a[2]), Invocation(b[1], b[2])>>
    /\ UNCHANGED <<stops_cache, populated>>
    /\ RaceFrame

\* if cache_key in self._stops_cache: return self._stops_cache[cache_key]
CacheTest(i) ==
    /\ race[i].pc = "test"
    /\ race' = [race EXCEPT ![i] =
                   IF StopsCacheHit(RaceClient(FALSE), RaceKey(@))
                   THEN [@ EXCEPT !.pc = "done",
                                  !.ret = stops_cache[RaceKey(race[i])]]
                   ELSE [@ EXCEPT !.pc = "discover"]]
    /\ UNCHANGED <<stops_cache, populated>>
    /\ RaceFrame

\* data = self._get("stoppoints-discovery.json", params); items = ...
Discover(i) ==
    /\ race[i].pc = "discover"
    /\ \E fails \in BOOLEAN :
           race' = [race EXCEPT ![i] =
                       IF ClientGet(RaceClient(fails),
                                    "stoppoints-discovery").err
                       THEN [@ EXCEPT !.pc = "raised"]
                       ELSE [@ EXCEPT !.pc = "scan", !.world = source,
                                      !.items = StopsOf(source)]]
    /\ UNCHANGED <<stops_cache, populated>>
    /\ RaceFrame

\* the invocation after the probe d of its first item
RaceProbed(inv, d) ==
    IF d.err THEN [inv EXCEPT !.pc = "raised"]
    ELSE [inv EXCEPT
             !.items = Tail(@),
             !.results =
                 IF ProbeConfirms(d.val)
                 THEN Append(@, StopEntry(
                                    get_value(Head(inv.items).StopName),
                                    get_value(Head(inv.items).StopPointRef),
                                    inv.direction_ref))
                 ELSE @]

\* a variant that builds the list in the cache: the entry is appended to
\* self._stops_cache[cache_key]
CacheAfterScanShared(inv) == (RaceKey(inv) :> inv.results) @@ stops_cache

\* results is a list of the invocation: the loop leaves _stops_cache alone
CacheAfterScan(inv) == stops_cache

\* one turn of `for it in items or []`, with its probe when the record
\* lists the line
ScanItem(i) ==
    /\ race[i].pc = "scan"
    /\ race[i].items # <<>>
    /\ \E fails \in BOOLEAN :
           race' = [race EXCEPT ![i] =
                       IF ~ListsLine(Head(@.items).Lines, @.line_ref)
                       THEN [@ EXCEPT !.items = Tail(@)]
                       ELSE RaceProbed(
                                @,
                                get_departures(
                                    RaceClient(fails),
                                    get_value(Head(@.items).StopPointRef),
                                    @.line_ref, @.direction_ref, 1))]
    /\ stops_cache' = CacheAfterScan(race'[i])
    /\ UNCHANGED populated
    /\ RaceFrame

\* the client after results.sort(...) and
\* self._stops_cache[cache_key] = results
RaceStored(inv) ==
    StoreStops(RaceClient(FALSE), RaceKey(inv),
               SortedByStopName(inv.results),
               [line_ref |-> inv.line_ref,
                direction_ref |-> inv.direction_ref, source |-> inv.world,
                probes |-> <<>>])

\* the loop is over: sort, store, return
SortAndStore(i) ==
    /\ race[i].pc = "scan"
    /\ race[i].items = <<>>
    /\ stops_cache' = RaceStored(race[i]).m.stops_cache
    /\ populated' = RaceStored(race[i]).m.populated
    /\ race' = [race EXCEPT ![i] =
                   [@ EXCEPT !.pc = "done", !.stored = TRUE,
                             !.ret = stops_cache'[RaceKey(race[i])]]]
    /\ RaceFrame

\* the steps of the two invocations, in any order
NextRace ==
    \/ TwoInvocations
    \/ \E i \in {1, 2} : race # NoRace /\ CacheTest(i)
    \/ \E i \in {1, 2} : race # NoRace /\ Discover(i)
    \/ \E i \in {1, 2} : race # NoRace /\ ScanItem(i)
    \/ \E i \in {1, 2} : race # NoRace /\ SortAndStore(i)
    \/ SourceFills

SpecRace == Init /\ [][NextRace]_vars



-----------------------------------------------------------------------------
(* Properties of the cache and of the search *)

CallKey == CacheKey(call.line_ref, call.direction_ref)

FailedProbes == {p \in Range(call.probes) : p.failed}

\* C1: in get_stops_for_line a failure of the departure probe of one stop
\* does not reach the caller: the call returns, the stop list is cached and
\* returned, and it leaves out the stop whose probe failed.
C1_ProbeFailureNotFatal ==
    (call.op = "get_stops_for_line" /\ FailedProbes # {}) =>
        /\ ~call.err
        /\ CallKey \in DOMAIN stops_cache
        /\ call.ret = stops_cache[CallKey]
        /\ \A p \in FailedProbes :
               \A i \in DOMAIN call.ret :
                   call.ret[i].stop_point_ref # p.stop_point_ref

\* C2: once a line-catalog fetch has succeeded, no later call issues another
\* one, whatever catalog that fetch returned.
C2_LinesFetchedOnce == call.linesFetchedBefore => call.lineFetches = 0

\* C3: once get_stops_for_line has returned for a key, no later call issues
\* a stop-discovery fetch or a departure probe for that key, also when the
\* stop list of the key is empty.
C3_StopsFetchedOncePerKey ==
    \A k \in call.stopsReturnedBefore :
        /\ \A i \in DOMAIN call.stopFetches : call.stopFetches[i] # k
        /\ \A i \in DOMAIN call.probes :
               CacheKey(call.probes[i].line_ref,
                        call.probes[i].direction_ref) # k

\* a call for a key whose empty stop list was returned before
C3_Witness ==
    /\ call.op = "get_stops_for_line"
    /\ ~call.err
    /\ CallKey \in call.stopsReturnedBefore
    /\ call.ret = <<>>
    /\ call.source = "full"

\* C4: a failure of the line-catalog fetch raises out of get_lines,
\* search_stop and find_line_by_query, and a failure of the stop-discovery
\* fetch raises out of get_stops_for_line and search_stop; neither becomes
\* an empty or none result.
C4_FetchFailuresPropagate ==
    /\ call.raisedBy = "lines-discovery" =>
           /\ call.op \in {"get_lines", "search_stop", "find_line_by_query"}
           /\ call.err
    /\ call.raisedBy = "stoppoints-discovery" =>
           /\ call.op \in {"get_stops_for_line", "search_stop"}
           /\ call.err

\* a search whose line fetch succeeds and whose stop-discovery fetch fails
C4_Witness ==
    /\ call.op = "search_stop"
    /\ call.lineFetches = 1
    /\ call.raisedBy = "stoppoints-discovery"
    /\ call.err

\* C5: a call that raises because the line-catalog fetch or the
\* stop-discovery fetch failed stores nothing: the line cache and every
\* stop-cache key stay as they were when that fetch was issued, the key
\* being populated stays absent, and the next call that needs the line
\* catalog fetches it again.
C5_FailedPopulationStoresNothing ==
    [][ /\ (call'.err /\ call'.raisedBy = "lines-discovery") =>
               /\ lines_cache' = lines_cache
               /\ stops_cache' = stops_cache
        /\ (call'.err /\ call'.raisedBy = "stoppoints-discovery") =>
               /\ call'.stopFetches[Len(call'.stopFetches)]
                      \notin DOMAIN stops_cache'
               /\ \A k \in DOMAIN stops_cache :
                      /\ k \in DOMAIN stops_cache'
                      /\ stops_cache'[k] = stops_cache[k]
               /\ call'.op = "get_stops_for_line" =>
                      /\ lines_cache' = lines_cache
                      /\ stops_cache' = stops_cache
        /\ (call.err /\ call.raisedBy = "lines-discovery"
                /\ call'.op \in {"get_lines", "search_stop",
                                 "find_line_by_query"}) =>
               call'.lineFetches = 1
      ]_vars

\* a stop-discovery failure for one key while another key is cached
C5_Witness ==
    /\ call.op = "get_stops_for_line"
    /\ call.err
    /\ call.raisedBy = "stoppoints-discovery"
    /\ DOMAIN stops_cache # {}
    /\ CallKey \notin DOMAIN stops_cache

\* the lines a stop record of the discovery response lists
LinesListed(it) == {get_value(it.Lines[i]) : i \in DOMAIN it.Lines}

\* C6: every stop cached under a key listed the key's line in the discovery
\* response of the key's population, and its probe for that line and
\* direction returned at least one visit during that population.
C6_CachedStopsConfirmed ==
    \A k \in DOMAIN stops_cache :
        LET how == populated[k]
        IN  /\ k = CacheKey(how.line_ref, how.direction_ref)
            /\ \A i \in DOMAIN stops_cache[k] :
                   /\ \E it \in Range(StopsOf(how.source)) :
                          /\ get_value(it.StopPointRef)
                                 = stops_cache[k][i].stop_point_ref
                          /\ get_value(it.StopName)
                                 = stops_cache[k][i].stop_name
                          /\ how.line_ref \in LinesListed(it)
                   /\ \E p \in Range(how.probes) :
                          /\ p.stop_point_ref
                                 = stops_cache[k][i].stop_point_ref
                          /\ p.line_ref = how.line_ref
                          /\ p.direction_ref = how.direction_ref
                          /\ ~p.failed
                          /\ p.visits >= 1

\* a cached stop list whose population probed a stop that had no departure
C6_Witness ==
    \E k \in DOMAIN stops_cache :
        /\ stops_cache[k] # <<>>
        /\ \E p \in Range(populated[k].probes) : p.visits = 0

\* the stops of the cached list of line that reach the stop threshold
MatchingStops(line, stop_query) ==
    LET k == CacheKey(line.info.line_ref, line.info.direction_ref)
    IN  IF k \in DOMAIN stops_cache
        THEN {i \in DOMAIN stops_cache[k] :
                  10 * ScoreOf(stop_query, stops_cache[k][i].stop_name)
                      >= 3 * ScoreScale}
        ELSE {}

\* C7: search_stop returns at most 10 results.
C7_AtMostTenResults ==
    (call.op = "search_stop" /\ ~call.err) => Len(call.ret) <= 10

\* a search in which more than 10 stops of cached lists reach the threshold
C7_Witness ==
    /\ call.op = "search_stop"
    /\ ~call.err
    /\ call.stop_query # <<>>
    /\ call.line_query = <<>>
    /\ call.dest_query = <<>>
    /\ Len(call.ret) = 10
    /\ \E lines \in SUBSET Range(lines_cache.items) :
           /\ Cardinality(lines) = 4
           /\ \A l \in lines :
                  Cardinality(MatchingStops(l, call.stop_query)) = 3

\* the line filter of search_stop, as the specification states it
Survives(line_info, line_query, dest_query) ==
    /\ \/ line_query = <<>>
       \/ 10 * Max(ScoreOf(line_query, line_info.line_name),
                   ScoreOf(line_query, line_info.line_code))
              >= 5 * ScoreScale
    /\ \/ dest_query = <<>>
       \/ 10 * ScoreOf(dest_query, line_info.dest_name) >= 3 * ScoreScale

\* the position in the catalog of the first entry that survives the filter,
\* 0 when none does
FirstSurvivor(line_query, dest_query) ==
    LET S == {i \in DOMAIN lines_cache.items :
                 Survives(lines_cache.items[i].info, line_query, dest_query)}
    IN  IF S = {} THEN 0 ELSE CHOOSE i \in S : \A j \in S : i <= j

\* C8: without stop_query search_stop returns the first catalog entry that
\* survives the filter, with stop_point_ref and stop_name None, and nothing
\* when no entry survives; the catalog is in line_name order.
C8_LineOnlyResult ==
    (call.op = "search_stop" /\ ~call.err /\ call.stop_query = <<>>) =>
        LET n == FirstSurvivor(call.line_query, call.dest_query)
            items == lines_cache.items
        IN  /\ \A i, j \in DOMAIN items :
                   i < j => ~StrLess(items[j].info.line_name,
                                     items[i].info.line_name)
            /\ n = 0 => call.ret = <<>>
            /\ n > 0 =>
                   /\ Len(call.ret) = 1
                   /\ call.ret[1].line_ref = items[n].info.line_ref
                   /\ call.ret[1].line_name = items[n].info.line_name
                   /\ call.ret[1].line_code = items[n].info.line_code
                   /\ call.ret[1].direction_ref = items[n].info.direction_ref
                   /\ call.ret[1].dest_name = items[n].info.dest_name
                   /\ call.ret[1].stop_point_ref = None
                   /\ call.ret[1].stop_name = None

\* a search without stop_query whose first surviving entry is not the
\* first entry of the catalog
C8_Witness ==
    /\ call.op = "search_stop"
    /\ ~call.err
    /\ call.stop_query = <<>>
    /\ Len(call.ret) = 1
    /\ FirstSurvivor(call.line_query, call.dest_query) > 1

\* C9: the line filter keeps an entry exactly when it passes the line
\* threshold 0.5 (if a line_query is given) and the destination threshold
\* 0.3 (if a dest_query is given); with the two Tram C entries cached,
\* dest_query "pyrenees" alone returns the entry toward Les Pyrenees.
C9_LineFilter ==
    /\ \A lq \in LineQueries \cup {S_Qtramnord},
          dq \in DestQueries \cup {S_Qpyreneescentre} :
           MatchingLines(lines_cache.items, lq, dq)
               = [i \in 1..Len(SelectSeq(lines_cache.items,
                                         LAMBDA l : Survives(l.info, lq, dq)))
                    |-> SelectSeq(lines_cache.items,
                                  LAMBDA l : Survives(l.info, lq, dq))[i].info]
    /\ (/\ call.op = "search_stop" /\ ~call.err
        /\ call.stop_query = <<>> /\ call.dest_query = S_Qpyrenees
        /\ lines_cache.items # <<>>) =>
           /\ Len(call.ret) = 1
           /\ call.ret[1].line_name = S_TramC
           /\ call.ret[1].dest_name = S_LesPyrenees

\* the two Tram C entries are cached and "pyrenees" is searched
C9_Witness ==
    /\ call.op = "search_stop"
    /\ ~call.err
    /\ call.stop_query = <<>>
    /\ call.line_query = <<>>
    /\ call.dest_query = S_Qpyrenees
    /\ Cardinality({i \in DOMAIN lines_cache.items :
                       lines_cache.items[i].info.line_name = S_TramC}) = 2
    /\ Len(call.ret) = 1

\* C10: normalize_text turns every number word of the table into its digit
\* string, the compound forms included, and "arret quarante journaux" into
\* "arret 40 journaux".
C10_NumberWordsReplaced ==
    txt.fn = "normalize_text" =>
        /\ \A k \in DOMAIN FRENCH_NUMBERS :
               txt.input = FRENCH_NUMBERS[k][1] =>
                   txt.output = FRENCH_NUMBERS[k][2]
        /\ txt.input = S_ArretQuaranteJournaux =>
               txt.output = S_Arret40Journaux

-----------------------------------------------------------------------------
(* Properties of normalize_text and fuzzy_match *)

\* C11: normalize_text is idempotent: normalizing its output again gives
\* the same string.
C11_NormalizeIdempotent ==
    txt.fn = "normalize_text" => normalize_text(txt.output) = txt.output

\* an input with an accented capital and a number word, which
\* normalize_text changes
C11_Witness ==
    /\ txt.fn = "normalize_text"
    /\ txt.input = <<"E/", " ", "u", "n">>
    /\ txt.output = <<"e", " ", "1">>
\* whether the normalized target contains the normalized query
QueryInTarget(query_norm, target_norm) == IsSubstring(query_norm, target_norm)

\* whether only the keyword tier is left for the pair
KeywordTierOnly(query_norm, target_norm) ==
    /\ query_norm # target_norm
    /\ ~IsSubstring(query_norm, target_norm)
    /\ ~IsSubstring(target_norm, query_norm)

\* the claim of C12 for the query, the targets t and o and their scores
TiersOrdered(query_norm, t_norm, o_norm, t_score, o_score) ==
    /\ t_score >= 0 /\ t_score <= ScoreScale
    /\ KeywordTierOnly(query_norm, t_norm) => 10 * t_score <= 7 * ScoreScale
    /\ (QueryInTarget(query_norm, t_norm)
            /\ KeywordTierOnly(query_norm, o_norm)) => t_score > o_score

\* C12: a target whose normalized form contains the normalized query scores
\* strictly higher than any target scored by the keyword tier; a keyword-tier
\* score is at most 0.7 and every score lies between 0.0 and 1.0.
C12_TierOrdering ==
    txt.fn = "fuzzy_match" =>
        \A t, o \in FuzzyTargets :
            TiersOrdered(normalize_text(txt.input), normalize_text(t),
                         normalize_text(o), txt.output[t], txt.output[o])

\* "tram 40" is inside "le tram quarante" once normalized, and shares both
\* its keywords with "40 tram"
C12_Witness ==
    /\ txt.fn = "fuzzy_match"
    /\ txt.input = W_tram \o <<" ">> \o W_40
    /\ 10 * txt.output[W_le \o <<" ">> \o W_tram \o <<" ">> \o W_quarante]
           = 9 * ScoreScale
    /\ 10 * txt.output[W_40 \o <<" ">> \o W_tram] = 7 * ScoreScale

\* the query keywords that are inside a target keyword or hold one
MatchingKeywords(query_words, target_words) ==
    {i \in DOMAIN query_words :
        \E j \in DOMAIN target_words :
            \/ IsSubstring(query_words[i], target_words[j])
            \/ IsSubstring(target_words[j], query_words[i])}

\* the tiers as the specification states them
TierReference(query_norm, target_norm, query_words, target_words) ==
    IF query_norm = target_norm THEN ScoreScale
    ELSE IF IsSubstring(query_norm, target_norm) THEN (9 * ScoreScale) \div 10
    ELSE IF IsSubstring(target_norm, query_norm) THEN (8 * ScoreScale) \div 10
    ELSE IF query_words = <<>> \/ target_words = <<>> THEN 0
    ELSE (7 * ScoreScale
              * Cardinality(MatchingKeywords(query_words, target_words)))
             \div (10 * Len(query_words))

\* C15: fuzzy_match equals the tiered reference (1.0 equal, 0.9 query in
\* target, 0.8 target in query, 0.0 without keywords on one side, else 0.7
\* times the share of the query keywords that match), and a text scores 1.0
\* against itself.
C15_TieredScore ==
    txt.fn = "fuzzy_match" =>
        /\ \A t \in FuzzyTargets :
               txt.output[t]
                   = TierReference(normalize_text(txt.input),
                                   normalize_text(t),
                                   extract_keywords(txt.input),
                                   extract_keywords(t))
        /\ txt.input \in FuzzyTargets => txt.output[txt.input] = ScoreScale

\* one of the two keywords of "quarante tramway" holds the keyword of
\* "Tram C"
C15_Witness ==
    /\ txt.fn = "fuzzy_match"
    /\ txt.input = W_quarante \o <<" ">> \o W_tramway
    /\ 20 * txt.output[S_TramC] = 7 * ScoreScale
\* what get_departures makes of OddVisit when every field degrades
DegradedVisit ==
    [line_ref |-> <<>>, direction_ref |-> -1, destination |-> <<>>,
     aimed |-> <<>>, expected |-> <<>>, realtime |-> FALSE]

\* C14: get_departures never raises on missing or odd-shaped provider data:
\* a missing or malformed text field becomes "", a missing or malformed
\* direction becomes -1, and an absent or null delivery or visit container
\* counts as empty.
C14_MalformedDataDegrades ==
    txt.fn = "get_departures" =>
        /\ ~txt.output.err
        /\ txt.input.t \in {"absent", "none"} => txt.output.val = <<>>
        /\ txt.input.t = "list" =>
               Len(txt.output.val) = Len(AllVisits(txt.input.items))
        /\ \A i \in DOMAIN txt.output.val :
               txt.output.val[i] \in {Visit(GoodVisit), DegradedVisit}

-----------------------------------------------------------------------------
(* Properties of find_line_by_query and of the search with a stop_query *)

\* the score of entry i of a catalog, as the specification states it
EntryScore(items, i, query) ==
    Max(ScoreOf(query, items[i].info.line_name),
        ScoreOf(query, items[i].info.line_code))

\* the earliest entry of the highest score, when that score reaches 0.5
FindReference(items, query) ==
    IF items = <<>> THEN <<>>
    ELSE LET i == CHOOSE i \in DOMAIN items :
                      \A j \in DOMAIN items :
                          /\ EntryScore(items, j, query)
                                 <= EntryScore(items, i, query)
                          /\ j < i => EntryScore(items, j, query)
                                          < EntryScore(items, i, query)
         IN  IF 10 * EntryScore(items, i, query) >= 5 * ScoreScale
             THEN <<items[i].info>>
             ELSE <<>>

\* the cached catalog without its first k entries
CatalogFrom(k) == SubSeq(lines_cache.items, k + 1, Len(lines_cache.items))

\* C13: find_line_by_query returns the catalog entry of the highest
\* max(score(query, line_name), score(query, line_code)), the earliest one
\* when several tie, and None when that score is below 0.5 or the catalog
\* is empty.
C13_FindLine ==
    /\ (call.op = "find_line_by_query" /\ ~call.err) =>
           call.ret = FindReference(lines_cache.items, call.line_query)
    /\ \A k \in 0..Len(lines_cache.items),
          q \in FindQueries \cup {S_Qtramnord} :
           BestOrNone(BestLine(CatalogFrom(k), q, <<>>, 0))
               = FindReference(CatalogFrom(k), q)

\* "tram c" finds Tram C toward Les Pyrenees, the fifth entry, which ties
\* with the sixth and follows entries of a lower positive score; "tram nord"
\* finds nothing among the last four entries, whose best score is 0.35
C13_Witness ==
    /\ call.op = "find_line_by_query"
    /\ ~call.err
    /\ call.line_query = S_Qtramc
    /\ Len(lines_cache.items) = 6
    /\ call.ret = <<lines_cache.items[5].info>>
    /\ EntryScore(lines_cache.items, 6, S_Qtramc)
           = EntryScore(lines_cache.items, 5, S_Qtramc)
    /\ EntryScore(lines_cache.items, 1, S_Qtramc) > 0
    /\ BestOrNone(BestLine(CatalogFrom(2), S_Qtramnord, <<>>, 0)) = <<>>
    /\ EntryScore(lines_cache.items, 5, S_Qtramnord) > 0
\* the entries of the cached catalog that survive the filter of the call
Survivors ==
    SelectSeq(lines_cache.items,
              LAMBDA l : Survives(l.info, call.line_query, call.dest_query))

\* the keys of the first five survivors, in catalog order
FirstFiveKeys ==
    [i \in 1..(IF Len(Survivors) < 5 THEN Len(Survivors) ELSE 5) |->
        CacheKey(Survivors[i].info.line_ref, Survivors[i].info.direction_ref)]

\* C16: a search_stop with a stop_query asks get_stops_for_line for the
\* first five entries that survive the line filter, in catalog order, and
\* for no other; no stop of a later entry is in the result, and every stop
\* of the result scores at least 0.3 against the stop_query.
C16_FiveLinesSearched ==
    (call.op = "search_stop" /\ call.stop_query # <<>>) =>
        /\ Len(call.stopRequests) <= 5
        /\ call.stopRequests
               = SubSeq(FirstFiveKeys, 1, Len(call.stopRequests))
        /\ ~call.err =>
               /\ call.stopRequests = FirstFiveKeys
               /\ \A i \in DOMAIN call.ret :
                      /\ CacheKey(call.ret[i].line_ref,
                                  call.ret[i].direction_ref)
                             \in Range(FirstFiveKeys)
                      /\ 10 * ScoreOf(call.stop_query, call.ret[i].stop_name)
                             >= 3 * ScoreScale

\* six entries survive, the sixth has a stop that matches at the data
\* source, and the result is not empty
C16_Witness ==
    /\ call.op = "search_stop"
    /\ ~call.err
    /\ call.stop_query = S_Q40journaux
    /\ Len(Survivors) = 6
    /\ Len(call.stopRequests) = 5
    /\ call.ret # <<>>
    /\ \E v \in Range(VisitsOf(call.source)) :
           /\ get_value(v.LineRef) = Survivors[6].info.line_ref
           /\ to_int(get_value(v.DirectionRef))
                  = Survivors[6].info.direction_ref
           /\ v.MonitoringRef = S_SP1
\* the stops of the cached list of a catalog entry that reach 0.3 against
\* the stop_query of the call, each with its line and its score
CandidatesOf(l) ==
    LET key == CacheKey(l.line_ref, l.direction_ref)
        stops == SelectSeq(stops_cache[key],
                           LAMBDA st : 10 * ScoreOf(call.stop_query,
                                                    st.stop_name)
                                           >= 3 * ScoreScale)
    IN  [i \in 1..Len(stops) |->
            [score |-> ScoreOf(call.stop_query, stops[i].stop_name),
             result |-> [stop_point_ref |-> stops[i].stop_point_ref,
                         stop_name |-> stops[i].stop_name,
                         line_ref |-> l.line_ref, line_name |-> l.line_name,
                         line_code |-> l.line_code,
                         direction_ref |-> l.direction_ref,
                         dest_name |-> l.dest_name]]]

\* the candidates of the entries, in collection order: entry after entry,
\* each in the order of its cached stop list
RECURSIVE Candidates(_)
Candidates(entries) ==
    IF entries = <<>> THEN <<>>
    ELSE CandidatesOf(Head(entries).info) \o Candidates(Tail(entries))

\* the place of candidate i when the candidates are ordered by score,
\* highest first, equal scores in collection order
Place(cands, i) ==
    1 + Cardinality({j \in DOMAIN cands :
                        \/ cands[j].score > cands[i].score
                        \/ cands[j].score = cands[i].score /\ j < i})

\* whether ret holds the first ten of the candidates in that order
FirstTenOf(ret, cands) ==
    /\ Len(ret) = (IF Len(cands) < 10 THEN Len(cands) ELSE 10)
    /\ \A i \in DOMAIN cands :
           Place(cands, i) <= 10 => ret[Place(cands, i)] = cands[i].result

\* C17: the results of search_stop with a stop_query are in non-increasing
\* order of stop score, candidates of equal score in the order they were
\* collected (surviving-line order, then place in the line's cached stop
\* list); the result is the first 10 of that order and has no score field.
C17_ResultOrder ==
    (call.op = "search_stop" /\ ~call.err /\ call.stop_query # <<>>) =>
        /\ FirstTenOf(call.ret,
                      Candidates(SubSeq(Survivors, 1, Len(FirstFiveKeys))))
        /\ \A i, j \in DOMAIN call.ret :
               i < j => ScoreOf(call.stop_query, call.ret[i].stop_name)
                            >= ScoreOf(call.stop_query, call.ret[j].stop_name)
        /\ \A i \in DOMAIN call.ret : "score" \notin DOMAIN call.ret[i]

\* ten results of two scores, led by stops of equal score from two lines
C17_Witness ==
    /\ call.op = "search_stop"
    /\ ~call.err
    /\ call.stop_query # <<>>
    /\ Len(call.ret) = 10
    /\ Len(Candidates(SubSeq(Survivors, 1, Len(FirstFiveKeys)))) > 10
    /\ ScoreOf(call.stop_query, call.ret[1].stop_name)
           = ScoreOf(call.stop_query, call.ret[2].stop_name)
    /\ call.ret[1].line_ref # call.ret[2].line_ref \/
           call.ret[1].direction_ref # call.ret[2].direction_ref
    /\ ScoreOf(call.stop_query, call.ret[1].stop_name)
           > ScoreOf(call.stop_query, call.ret[10].stop_name)
-----------------------------------------------------------------------------
(* Properties of the catalog and of the stop lists *)

\* the destination records of one line record, each with the key and the
\* entry the specification derives from it
RecordsOfLine(it) ==
    [i \in 1..Len(it.Destinations) |->
        [key |-> get_value(it.LineRef) \o <<"-">>
                     \o IntStr(to_int(get_value(
                                   it.Destinations[i].DirectionRef))),
         info |-> [line_ref |-> get_value(it.LineRef),
                   line_name |-> get_value(it.LineName),
                   line_code |-> get_value(it.LineCode),
                   dest_name |-> get_value(it.Destinations[i].PlaceName),
                   direction_ref |-> to_int(get_value(
                                         it.Destinations[i].DirectionRef))]]]

\* the destination records of the fetched line records, in fetch order
RECURSIVE FetchedRecords(_)
FetchedRecords(items) ==
    IF items = <<>> THEN <<>>
    ELSE (IF get_value(Head(items).LineRef) # <<>>
          THEN RecordsOfLine(Head(items)) ELSE <<>>)
         \o FetchedRecords(Tail(items))

\* the first and the last place of a key among the fetched records
FirstPlace(records, key) ==
    CHOOSE i \in DOMAIN records :
        records[i].key = key /\ \A j \in 1..(i - 1) : records[j].key # key

LastPlace(records, key) ==
    CHOOSE i \in DOMAIN records :
        records[i].key = key
            /\ \A j \in (i + 1)..Len(records) : records[j].key # key

\* the claim of C18 for a cached catalog and the records it was built from
CatalogOf(items, records) ==
    /\ \A i, j \in DOMAIN items : i # j => items[i].key # items[j].key
    /\ {items[i].key : i \in DOMAIN items}
           = {records[i].key : i \in DOMAIN records}
    /\ \A i \in DOMAIN items :
           /\ items[i].key = CacheKey(items[i].info.line_ref,
                                      items[i].info.direction_ref)
           /\ items[i].info = records[LastPlace(records, items[i].key)].info
    /\ \A i, j \in DOMAIN items :
           i < j =>
               /\ ~StrLess(items[j].info.line_name, items[i].info.line_name)
               /\ items[i].info.line_name = items[j].info.line_name =>
                      FirstPlace(records, items[i].key)
                          < FirstPlace(records, items[j].key)

\* C18: the catalog of get_lines has one entry per key line_ref-direction;
\* of several destination records of one key, malformed directions that
\* become -1 included, the last fetched is kept; the catalog is in
\* ascending line_name order, equal names in the order their keys first
\* came.
C18_CatalogKeys ==
    lines_cache.items # <<>> =>
        CatalogOf(lines_cache.items, FetchedRecords(LinesOf(source)))

\* the catalog built from the records with shared keys: C-0 and C--1 came
\* twice each, C--1 last overwritten before C-0 was
C18_Witness ==
    /\ call.op = "get_lines"
    /\ ~call.err
    /\ call.source = "doubled"
    /\ Len(call.ret) = 3
    /\ call.ret = lines_cache.items
    /\ call.ret[2].key = <<"C", "-", "0">>
    /\ call.ret[2].info.dest_name = S_LesPyrenees
    /\ call.ret[3].key = <<"C", "-", "-", "1">>
    /\ call.ret[3].info.dest_name = S_Centre
\* the stop-cache keys a step added
NewStopKeys == DOMAIN stops_cache' \ DOMAIN stops_cache

\* C19: a cached stop list never changes in content or order; populating
\* the stop list of one key leaves the lists of the other keys and the line
\* catalog as they were; search_stop and find_line_by_query change the
\* caches only by adding keys that were absent.
C19_CachesOnlyGrow ==
    [][ /\ \A k \in DOMAIN stops_cache :
               /\ k \in DOMAIN stops_cache'
               /\ stops_cache'[k] = stops_cache[k]
        /\ lines_cache.items # <<>> => lines_cache' = lines_cache
        /\ call'.op = "get_stops_for_line" =>
               /\ lines_cache' = lines_cache
               /\ NewStopKeys \subseteq {CacheKey(call'.line_ref,
                                                  call'.direction_ref)}
        /\ call'.op = "search_stop" =>
               NewStopKeys \subseteq Range(call'.stopRequests)
        /\ call'.op \in {"find_line_by_query", "get_lines"} =>
               stops_cache' = stops_cache
      ]_vars

\* a search that populated keys while the non-empty list of another key
\* and the catalog were cached
C19_Witness ==
    /\ call.op = "search_stop"
    /\ ~call.err
    /\ call.linesFetchedBefore
    /\ call.lineFetches = 0
    /\ Len(call.stopFetches) > 0
    /\ \E k \in call.stopsReturnedBefore :
           /\ stops_cache[k] # <<>>
           /\ \A i \in DOMAIN call.stopFetches : call.stopFetches[i] # k
\* the stop records of the discovery response that list line_ref
ListingRecords(src, line_ref) ==
    {i \in DOMAIN StopsOf(src) : line_ref \in LinesListed(StopsOf(src)[i])}

\* the places at which a stop record lists line_ref
ListedAt(it, line_ref) ==
    {i \in DOMAIN it.Lines : get_value(it.Lines[i]) = line_ref}

\* the claim of C20 for a cached list and the record of its population
SortedOncePerRecord(list, how) ==
    /\ \A i, j \in DOMAIN list :
           i < j =>
               /\ ~StrLess(NormOf(list[j].stop_name),
                           NormOf(list[i].stop_name))
               /\ list[i].stop_point_ref # list[j].stop_point_ref
    /\ Len(how.probes)
           = Cardinality(ListingRecords(how.source, how.line_ref))
    /\ \A r \in ListingRecords(how.source, how.line_ref) :
           Cardinality({p \in DOMAIN how.probes :
                           how.probes[p].stop_point_ref
                               = get_value(StopsOf(how.source)[r]
                                               .StopPointRef)}) = 1

\* C20: every cached stop list is in ascending order of normalized
\* stop_name and holds a stop record of the discovery response at most once,
\* one probe being issued per record that lists line_ref, also when the
\* record lists it several times.
C20_StopListSorted ==
    \A k \in DOMAIN stops_cache :
        SortedOncePerRecord(stops_cache[k], populated[k])

\* a cached list of three stops whose order by normalized name is not the
\* order of the names as they are, one of them listing the line twice
C20_Witness ==
    \E k \in DOMAIN stops_cache :
        /\ Len(stops_cache[k]) = 3
        /\ StrLess(stops_cache[k][2].stop_name, stops_cache[k][1].stop_name)
        /\ \E r \in ListingRecords(populated[k].source,
                                    populated[k].line_ref) :
               /\ get_value(StopsOf(populated[k].source)[r].StopPointRef)
                      = stops_cache[k][1].stop_point_ref
               /\ Cardinality(ListedAt(StopsOf(populated[k].source)[r],
                                       populated[k].line_ref)) = 2

-----------------------------------------------------------------------------
(* The favourite dialog of the skill *)

FavouriteKeys == {"stop_point_ref", "line_ref", "direction_ref"}

\* the session holds the favourite of the request just handled
SessionHoldsFavourite ==
    \A k \in FavouriteKeys :
        /\ k \in DOMAIN skill.session
        /\ skill.session[k] = skill.last.attrs[k]

\* C21: when SetFavoriteDirectionIntent has chosen a favourite and the
\* persistent storage was unavailable, the session attributes hold the
\* stop_point_ref, line_ref and direction_ref of that favourite once the
\* handler has completed.
C21_FavouriteKeptInSession ==
    ( /\ skill.last.intent = "SetFavoriteDirectionIntent"
      /\ skill.last.outcome = "saved"
      /\ ~skill.last.up )
        => SessionHoldsFavourite

\* the session holds both pending names
DialogComplete(sk) ==
    /\ AttrGet(sk.session, "pending_stop_name") # <<>>
    /\ AttrGet(sk.session, "pending_line_name") # <<>>

NoPendingNames(sk) ==
    /\ "pending_stop_name" \notin DOMAIN sk.session
    /\ "pending_line_name" \notin DOMAIN sk.session

\* C22: a SetFavoriteDirectionIntent request writes the saved favourite only
\* when the session held both pending names and search_stop returned at
\* least one result; then, the save succeeding, the stored favourite is the
\* first result and both pending names are gone from the session.  In
\* every other outcome the stored favourite and the session, pending names
\* included, are as they were.
C22_DialogFrame ==
    [][ skill'.last.intent = "SetFavoriteDirectionIntent"
          => IF /\ DialogComplete(skill)
                /\ call'.op = "search_stop"
                /\ ~call'.err
                /\ call'.ret # <<>>
             THEN skill'.last.up
                      => /\ skill'.stored = skill'.last.attrs
                         /\ skill'.stored.stop_point_ref
                                = call'.ret[1].stop_point_ref
                         /\ NoPendingNames(skill')
             ELSE /\ skill'.stored = skill.stored
                  /\ skill'.session = skill.session ]_vars

\* a favourite was saved in the store and the pending names are gone
C22_Witness ==
    /\ skill.last.intent = "SetFavoriteDirectionIntent"
    /\ skill.last.outcome = "saved"
    /\ skill.last.up
    /\ skill.stored = skill.last.attrs
    /\ skill.stored.stop_point_ref = S_SP1
    /\ NoPendingNames(skill)

-----------------------------------------------------------------------------
(* Empty labels *)

\* the line_name of every returned entry matches the line_query
LineNamesMatch ==
    \A i \in DOMAIN call.ret :
        ScoreOf(call.line_query, call.ret[i].line_name) >= LineThreshold

\* C23: with a non-empty line_query, no entry whose line_name scores below
\* 0.5 against it is kept by the line filter of search_stop or returned by
\* find_line_by_query, whatever its line_code, an empty one included; and
\* no stop with an empty stop_name is returned for a non-empty stop_query.
C23_EmptyLabelsNeverMatch ==
    /\ ( /\ call.op \in {"search_stop", "find_line_by_query"}
         /\ ~call.err
         /\ call.line_query # <<>> )
           => LineNamesMatch
    /\ ( /\ call.op = "search_stop"
         /\ ~call.err
         /\ call.stop_query # <<>> )
           => \A i \in DOMAIN call.ret : call.ret[i].stop_name # <<>>

-----------------------------------------------------------------------------
(* Interleaved invocations *)

\* the list one invocation computes when it runs alone, from its discovery
\* request to its return, on what the data source served it
CompleteList(inv) ==
    get_stops_for_line(Start(NoLinesCache, <<>>, <<>>, inv.world, 0),
                       inv.line_ref, inv.direction_ref).val

\* the invocations that have stored a list under cache_key
Storers(cache_key) ==
    {i \in DOMAIN race : race[i].stored /\ RaceKey(race[i]) = cache_key}

\* C24: when two invocations of get_stops_for_line interleave on one
\* client, the list under a stop-cache key is at every moment the complete
\* list that one invocation which has reached its store computed, never
\* the list an invocation is still building nor a mix of two; and what an
\* invocation returns is such a list too.
C24_StoredListsComplete ==
    /\ \A k \in DOMAIN stops_cache :
           \E i \in Storers(k) : stops_cache[k] = CompleteList(race[i])
    /\ \A j \in DOMAIN race :
           race[j].pc = "done"
               => \E i \in Storers(RaceKey(race[j])) :
                      race[j].ret = CompleteList(race[i])

\* both invocations have populated the same key, the first of them from
\* the empty data source and the second with a list of three stops, while
\* the first was still under way when the second began
C24_Witness ==
    /\ race # NoRace
    /\ \A i \in DOMAIN race : race[i].stored
    /\ RaceKey(race[1]) = RaceKey(race[2])
    /\ \E i \in DOMAIN race : race[i].ret = <<>>
    /\ \E i \in DOMAIN race : Len(race[i].ret) = 3
    /\ Len(stops_cache[RaceKey(race[1])]) = 3

-----------------------------------------------------------------------------
(* Calls that need no stop list *)

\* the last call asked for no stop list, fetched none and probed no stop
NoStopWork ==
    /\ call.stopRequests = <<>>
    /\ call.stopFetches = <<>>
    /\ call.probes = <<>>

\* C25: a search_stop call without stop_query and every find_line_by_query
\* call make no stop-discovery request and no departure probe and leave
\* the stop cache as it was, whether they return or raise; a search_stop
\* call with a stop_query whose line filter keeps no catalog entry makes
\* none either and returns the empty sequence.
C25_NoStopWorkWithoutStops ==
    [][ /\ ( \/ call'.op = "find_line_by_query"
             \/ call'.op = "search_stop" /\ call'.stop_query = <<>> )
               => /\ NoStopWork'
                  /\ stops_cache' = stops_cache
        /\ ( /\ call'.op = "search_stop"
             /\ call'.stop_query # <<>>
             /\ ~call'.err
             /\ Survivors' = <<>> )
               => /\ NoStopWork'
                  /\ stops_cache' = stops_cache
                  /\ call'.ret = <<>>
      ]_vars

\* "40 journaux" toward "tram nord": the catalog holds six entries, the
\* stop cache a list already, no entry survives and nothing is returned
C25_Witness ==
    /\ call.op = "search_stop"
    /\ ~call.err
    /\ call.stop_query = S_Q40journaux
    /\ call.dest_query = S_Qtramnord
    /\ Len(lines_cache.items) = 6
    /\ Survivors = <<>>
    /\ NoStopWork
    /\ call.ret = <<>>
    /\ stops_cache # <<>>

====
